---- MODULE Spec2Model ----
(***************************************************************************)
(* Research workflow orchestration engine of langgraph-multiagent-research *)
(* (ResearchOrchestrator graph, ResearchNodes stages, ResearchWorkflow,    *)
(* the domain services and the in-memory unit of work).                    *)
(*                                                                         *)
(* One workflow run on one checkpointed thread is modelled.  The graph     *)
(* runner executes one node per step; `next` is the node the checkpoint    *)
(* schedules, `phase` tells whether the runner is inside a stream or has   *)
(* handed control back to the caller.  ThreadsSpec models several runs    *)
(* on the one compiled graph, addressed by their thread ids.               *)
(***************************************************************************)
EXTENDS Integers, Sequences, FiniteSets, TLC

\* ------------------------------------------------------------------------
\* Bounds of the exploration
\* ------------------------------------------------------------------------
MaxBatch == 2        \* largest persona batch a generator returns
MaxTurnsBound == 2   \* largest max_interview_turns a caller passes

\* ------------------------------------------------------------------------
\* Values fixed by the program
\* ------------------------------------------------------------------------
MaxAnalystsLimit == 10   \* validate_analyst_requirements upper limit
MinDescriptionLen == 10  \* validate_analyst_personas minimum description

None == "None"           \* Python None in a string-typed optional field
NoId == 0                \* Python None in an id-typed optional field

\* ------------------------------------------------------------------------
\* Text values and the string operations the code applies to them
\* ------------------------------------------------------------------------
Topics == {"", " ", "Design patterns"}
Feedbacks == {"", " ", "add a startup view"}

\* str.strip() on the texts of the model
Strip(s) == IF s = " " THEN "" ELSE s

\* Python truthiness of an optional string
Truthy(s) == s # None /\ s # ""

\* `human_feedback and human_feedback.strip()`
NonBlank(s) == Truthy(s) /\ Truthy(Strip(s))

\* Persona description texts, with the length len() returns for each
Descriptions == {"", "   ", "          ", "too short", "ten chars!",
                 "studies design patterns in depth"}
StrLen(s) ==
    CASE s = "" -> 0
      [] s = " " -> 1
      [] s = "   " -> 3
      [] s = "too short" -> 9
      [] s = "          " -> 10
      [] s = "ten chars!" -> 10
      [] OTHER -> 32
StripText(s) == IF s \in {" ", "   ", "          "} THEN "" ELSE s

\* ------------------------------------------------------------------------
\* Variables
\* ------------------------------------------------------------------------
VARIABLES
    st,        \* ResearchState channel values of the thread's checkpoint
    next,      \* node scheduled next by the checkpoint ("END" when finished)
    phase,     \* "idle" | "running" | "paused" | "done"
    api,       \* orchestrator/graph entry point that started the current stream
    ret,       \* what the last entry point returned to its caller
    uow,       \* ResearchUnitOfWork: the in-memory repositories and indexes
    nextId,    \* source of fresh entity ids (uuid4)
    trace,     \* history: stages executed so far, in order
    lastStage, \* history: outcome of the stage executed last
    gate,      \* history: checkpoint and repositories at the suspension
    resumes,   \* history: number of resumptions of the run
    ivIn,      \* interview engine harness: inputs of the call
    ivOut,     \* interview engine harness: result of the call
    svcIn,     \* domain service harness: the operation called and its inputs
    svcOut,    \* domain service harness: what the operation returned
    saver,     \* MemorySaver of the compiled graph: thread id -> checkpoint
    runs       \* history: the runs started on the shared graph, in order

vars == <<st, next, phase, api, ret, uow, nextId, trace, lastStage, gate,
          resumes, ivIn, ivOut, svcIn, svcOut, saver, runs>>

\* ------------------------------------------------------------------------
\* research_state.py
\* ------------------------------------------------------------------------
\* keys whose values are optional strings; only they can carry None
OptionalKeys == {"human_feedback", "error"}

\* update_research_state(**kwargs): keeps the entries whose value is not None
update_research_state(kwargs) ==
    LET keep == {k \in DOMAIN kwargs :
                    ~(k \in OptionalKeys /\ kwargs[k] = None)}
    IN [k \in keep |-> kwargs[k]]

\* set_error_state that forgets to mark the workflow complete
set_error_state_without_complete(error_message) ==
    [error |-> error_message, success |-> FALSE]

set_error_state(error_message) ==
    [error |-> error_message, success |-> FALSE, workflow_complete |-> TRUE]

\* set_success_state that forgets to mark the workflow complete
set_success_state_without_complete(output_data) ==
    [success |-> TRUE, output_data |-> output_data]

set_success_state(output_data) ==
    [success |-> TRUE, workflow_complete |-> TRUE, output_data |-> output_data]

\* LangGraph applies a node's returned delta key by key on the channels
ApplyDelta(state, delta) ==
    [k \in DOMAIN state |-> IF k \in DOMAIN delta THEN delta[k] ELSE state[k]]

EmptyOutput == [kind |-> "empty"]

\* initial_state of run_research / run_research_with_interruption
initial_state(topic, max_analysts, max_interview_turns, human_feedback) ==
    [topic |-> topic,
     max_analysts |-> max_analysts,
     max_interview_turns |-> max_interview_turns,
     human_feedback |-> human_feedback,
     project_id |-> NoId,
     project_status |-> "created",
     analysts |-> <<>>,
     current_analyst_index |-> 0,
     interviews |-> <<>>,
     sections |-> <<>>,
     current_step |-> "start",
     workflow_complete |-> FALSE,
     output_data |-> EmptyOutput,
     error |-> None,
     success |-> FALSE]

\* ------------------------------------------------------------------------
\* research_unit_of_work.py / memory_research_repositories.py
\* ------------------------------------------------------------------------
EmptyMap == [x \in {} |-> 0]

\* ResearchUnitOfWork.__init__ with the lazily created memory repositories
EmptyUow ==
    [research_projects |-> EmptyMap,
     research_topics |-> EmptyMap,
     analysts |-> EmptyMap,
     project_analysts |-> EmptyMap,
     interviews |-> EmptyMap,
     analyst_interviews |-> EmptyMap,
     project_interviews |-> EmptyMap,
     research_sections |-> EmptyMap,
     project_sections |-> EmptyMap]

\* the element of a one-element set; {e(x) : x \in {v}} names the value v
\* once and uses it in e
Only(S) == CHOOSE v \in S : TRUE

\* dict[key] = value
Put(map, key, value) == (key :> value) @@ map

\* Memory*Repository.update: stores only when the id is present
RepoUpdate(map, entity) ==
    IF entity.id \in DOMAIN map THEN Put(map, entity.id, entity) ELSE map

\* associate_with_project that inserts the id at the front of the list
associate_with_project_prepending(index, project_id, child_id) ==
    LET cur == IF project_id \in DOMAIN index THEN index[project_id] ELSE <<>>
    IN IF \E i \in 1..Len(cur) : cur[i] = child_id
       THEN Put(index, project_id, cur)
       ELSE Put(index, project_id, <<child_id>> \o cur)

\* Memory*Repository.associate_with_project: appends the id once
associate_with_project(index, project_id, child_id) ==
    LET cur == IF project_id \in DOMAIN index THEN index[project_id] ELSE <<>>
    IN IF \E i \in 1..Len(cur) : cur[i] = child_id
       THEN Put(index, project_id, cur)
       ELSE Put(index, project_id, Append(cur, child_id))

\* dict.setdefault(key, []).append(value) of the create() methods
IndexAppend(index, key, value) ==
    Put(index, key,
        Append(IF key \in DOMAIN index THEN index[key] ELSE <<>>, value))

\* Memory*Repository.get_by_project_id
get_by_project_id(map, index, project_id) ==
    LET ids == IF project_id \in DOMAIN index THEN index[project_id] ELSE <<>>
    IN SelectSeq([i \in 1..Len(ids) |->
                    IF ids[i] \in DOMAIN map THEN map[ids[i]] ELSE [id |-> NoId]],
                 LAMBDA e : e.id # NoId)

\* ResearchUnitOfWork.rollback: a no-op for the memory repositories, so the
\* writes made before the exception stay
rollback(before, current) == current

\* ResearchUnitOfWork.commit: a no-op
commit(current) == current

\* ResearchUnitOfWork.__aexit__
aexit(exc, before, current) ==
    IF exc THEN rollback(before, current) ELSE commit(current)

\* ------------------------------------------------------------------------
\* analyst_service.py
\* ------------------------------------------------------------------------
validate_analyst_requirements(topic, max_analysts) ==
    IF ~Truthy(topic) \/ Strip(topic) = "" THEN FALSE
    ELSE IF max_analysts <= 0 \/ max_analysts > MaxAnalystsLimit THEN FALSE
    ELSE TRUE

\* names = [a.name ...]; len(names) != len(set(names))
HasDuplicateNames(analysts) ==
    Len(analysts) # Cardinality({analysts[i].name : i \in 1..Len(analysts)})

\* validate_analyst_personas that also rejects a description of exactly the
\* minimum length
validate_analyst_personas_rejecting_minimum_length(analysts) ==
    IF Len(analysts) = 0 THEN FALSE
    ELSE IF \E i \in 1..Len(analysts) :
              \/ StripText(analysts[i].name) = ""
              \/ StripText(analysts[i].role) = ""
              \/ StripText(analysts[i].affiliation) = ""
              \/ StripText(analysts[i].description) = ""
              \/ StrLen(analysts[i].description) <= MinDescriptionLen
         THEN FALSE
    ELSE IF HasDuplicateNames(analysts) THEN FALSE
    ELSE TRUE

validate_analyst_personas(analysts) ==
    IF Len(analysts) = 0 THEN FALSE
    ELSE IF \E i \in 1..Len(analysts) :
              \/ StripText(analysts[i].name) = ""
              \/ StripText(analysts[i].role) = ""
              \/ StripText(analysts[i].affiliation) = ""
              \/ StripText(analysts[i].description) = ""
              \/ StrLen(analysts[i].description) < MinDescriptionLen
         THEN FALSE
    ELSE IF HasDuplicateNames(analysts) THEN FALSE
    ELSE TRUE

\* ------------------------------------------------------------------------
\* Persona generator port (MockResearchService / ResearchLLMService
\* create_analysts): what a generator can hand back
\* ------------------------------------------------------------------------
RosterNames == <<"Dr. Sarah Chen", "Marcus Rodriguez",
                 "Prof. Elena Kowalski", "Alex Kim">>

Persona(name, description) ==
    [name |-> name, role |-> "Researcher",
     affiliation |-> "Research Lab", description |-> description]

GoodDescription == "studies design patterns in depth"

\* the first k personas of the roster: a well-formed batch of k analysts
RosterBatch(k) == [i \in 1..k |-> Persona(RosterNames[i], GoodDescription)]

\* malformed batches: a repeated name, a short description, a blank role
DuplicateBatch == <<Persona(RosterNames[1], GoodDescription),
                    Persona(RosterNames[1], GoodDescription)>>
ShortBatch == <<Persona(RosterNames[1], "too short")>>
BlankRoleBatch == <<[Persona(RosterNames[1], GoodDescription)
                        EXCEPT !.role = " "]>>

GeneratorOutcomes ==
    {[kind |-> "raise", batch |-> <<>>]}
    \cup {[kind |-> "batch", batch |-> RosterBatch(k)] : k \in 0..MaxBatch}
    \cup {[kind |-> "batch", batch |-> b] :
            b \in {DuplicateBatch, ShortBatch, BlankRoleBatch}}

\* Analyst(...): every constructed entity gets a fresh id
WithIds(batch, nid) ==
    [i \in 1..Len(batch) |->
        [id |-> nid + i - 1, name |-> batch[i].name, role |-> batch[i].role,
         affiliation |-> batch[i].affiliation,
         description |-> batch[i].description]]

\* ------------------------------------------------------------------------
\* research_service.py
\* ------------------------------------------------------------------------
\* ResearchService.create_research_project: ResearchProject(topic, "created")
NewProject(id, topic) ==
    [id |-> id, topic |-> topic, analysts |-> <<>>, interviews |-> <<>>,
     sections |-> <<>>, status |-> "created", completed_at |-> FALSE]

update_project_status(project, status) ==
    [project EXCEPT !.status = status,
                    !.completed_at = IF status = "completed" THEN TRUE ELSE @]

add_analysts_to_project(project, analysts) ==
    [project EXCEPT !.analysts = @ \o analysts]

get_project_progress(project) ==
    [total_analysts |-> Len(project.analysts),
     completed_interviews |->
        Len(SelectSeq(project.interviews, LAMBDA i : i.completed_at)),
     pending_interviews |->
        Len(SelectSeq(project.interviews, LAMBDA i : ~i.completed_at)),
     sections_written |-> Len(project.sections),
     status |-> project.status]

is_project_complete(project) ==
    IF Len(project.analysts) = 0 THEN FALSE
    ELSE /\ Len(SelectSeq(project.interviews, LAMBDA i : i.completed_at))
              = Len(project.analysts)
         /\ Len(project.sections) = Len(project.analysts)
         /\ project.status = "completed"

\* ------------------------------------------------------------------------
\* research_workflow.py: create_research_project, generate_analysts
\* A workflow call yields [exc, uow, val, nextId]: whether it raised, the
\* repositories it leaves, its return value and the id source afterwards.
\* ------------------------------------------------------------------------
NoValue == [id |-> NoId]

create_research_project(u, nid, topic, max_analysts) ==
    LET project == NewProject(nid, topic)
        u1 == [u EXCEPT !.research_projects = Put(@, project.id, project)]
        research_topic == [id |-> nid + 1, topic |-> topic,
                           max_analysts |-> max_analysts]
        u2 == [u1 EXCEPT !.research_topics =
                            Put(@, research_topic.id, research_topic)]
    IN IF validate_analyst_requirements(topic, max_analysts)
       THEN [exc |-> FALSE, uow |-> aexit(FALSE, u, u2), val |-> project,
             nextId |-> nid + 2]
       ELSE \* create_research_topic raises ValueError after the project
            \* record was stored
            [exc |-> TRUE, uow |-> aexit(TRUE, u, u1), val |-> NoValue,
             nextId |-> nid + 1]

RECURSIVE StoreAnalysts(_, _, _)
\* for analyst in analysts: uow.analysts.create(analyst)
StoreAnalysts(map, analysts, i) ==
    IF i > Len(analysts) THEN map
    ELSE StoreAnalysts(Put(map, analysts[i].id, analysts[i]), analysts, i + 1)

RECURSIVE AssociateAll(_, _, _, _)
\* create_project_associations: associate every id of the list in order
AssociateAll(index, project_id, ids, i) ==
    IF i > Len(ids) THEN index
    ELSE AssociateAll(associate_with_project(index, project_id, ids[i]),
                      project_id, ids, i + 1)

\* generate_analysts that stores and associates the batch before it
\* validates it
generate_analysts_storing_before_validation(u, nid, project_id, topic, max_analysts, human_feedback, outcome) ==
    LET analysts == WithIds(outcome.batch, nid)
        nid1 == nid + Len(analysts)
    IN IF project_id \notin DOMAIN u.research_projects
       THEN [exc |-> TRUE, uow |-> aexit(TRUE, u, u), val |-> <<>>,
             nextId |-> nid]
       ELSE IF outcome.kind = "raise"
       THEN [exc |-> TRUE, uow |-> aexit(TRUE, u, u), val |-> <<>>,
             nextId |-> nid]
       ELSE
         LET project == add_analysts_to_project(
                            u.research_projects[project_id], analysts)
             ids == [i \in 1..Len(analysts) |-> analysts[i].id]
             u1 == [u EXCEPT
                      !.analysts = StoreAnalysts(@, analysts, 1),
                      !.research_projects = RepoUpdate(@, project),
                      !.project_analysts =
                          IF Len(ids) = 0 THEN @
                          ELSE AssociateAll(@, project_id, ids, 1)]
         IN IF ~validate_analyst_personas(analysts)
            THEN [exc |-> TRUE, uow |-> aexit(TRUE, u, u1), val |-> <<>>,
                  nextId |-> nid1]
            ELSE [exc |-> FALSE, uow |-> aexit(FALSE, u, u1),
                  val |-> analysts, nextId |-> nid1]

generate_analysts(u, nid, project_id, topic, max_analysts, human_feedback, outcome) ==
    LET analysts == WithIds(outcome.batch, nid)
        nid1 == nid + Len(analysts)
    IN IF project_id \notin DOMAIN u.research_projects
       THEN [exc |-> TRUE, uow |-> aexit(TRUE, u, u), val |-> <<>>,
             nextId |-> nid]
       ELSE IF outcome.kind = "raise"
       THEN [exc |-> TRUE, uow |-> aexit(TRUE, u, u), val |-> <<>>,
             nextId |-> nid]
       ELSE IF ~validate_analyst_personas(analysts)
       THEN [exc |-> TRUE, uow |-> aexit(TRUE, u, u), val |-> <<>>,
             nextId |-> nid1]
       ELSE
         LET project == add_analysts_to_project(
                            u.research_projects[project_id], analysts)
             ids == [i \in 1..Len(analysts) |-> analysts[i].id]
             u1 == [u EXCEPT
                      !.analysts = StoreAnalysts(@, analysts, 1),
                      !.research_projects = RepoUpdate(@, project),
                      !.project_analysts =
                          IF Len(ids) = 0 THEN @
                          ELSE AssociateAll(@, project_id, ids, 1)]
         IN [exc |-> FALSE, uow |-> aexit(FALSE, u, u1), val |-> analysts,
             nextId |-> nid1]

\* ------------------------------------------------------------------------
\* interview_service.py
\* ------------------------------------------------------------------------
SignOffText == "Thank you so much for your help!"
QuestionText == "Could you share some specific examples?"
AnswerText == "Based on my experience, context matters."

\* `"Thank you so much for your help" in content`, on the texts of the model
ContainsSignOff(content) == content = SignOffText

\* InterviewService.create_interview
create_interview(id, analyst, topic, max_turns) ==
    [id |-> id, analyst_id |-> analyst.id, topic |-> topic,
     transcript |-> <<>>, context_documents |-> <<>>,
     max_turns |-> max_turns, completed_at |-> FALSE]

\* InterviewService.complete_interview with the value of datetime.utcnow()
\* made explicit: completed_at is assigned whatever it held before
complete_interview_at(interview, now) ==
    [interview EXCEPT !.completed_at = now]

\* where the time of completion does not matter, completed_at is just set
complete_interview(interview) == complete_interview_at(interview, TRUE)

add_context_to_interview(interview, context_documents) ==
    [interview EXCEPT !.context_documents = @ \o context_documents]

update_interview_transcript(interview, transcript) ==
    [interview EXCEPT !.transcript = transcript]

ExpertResponses(messages) ==
    SelectSeq(messages, LAMBDA m : m.name = "expert")

should_continue_interview(messages, max_turns) ==
    IF Len(ExpertResponses(messages)) >= max_turns THEN FALSE
    ELSE IF Len(messages) >= 2
            /\ ContainsSignOff(messages[Len(messages) - 1].content)
         THEN FALSE
    ELSE TRUE

\* SectionService.generate_section_title
generate_section_title(analyst, topic) ==
    IF Truthy(analyst.role)
    THEN <<analyst.role, " Perspective on ", topic>>
    ELSE <<analyst.name, "'s Analysis of ", topic>>

\* SectionService.create_section
create_section(id, interview, analyst, title, content) ==
    [id |-> id, interview_id |-> interview.id, analyst_id |-> analyst.id,
     title |-> title, content |-> content]

\* ------------------------------------------------------------------------
\* Question / answer / search / section-writer ports: one round of an
\* interview sees the outcome [q, search, a] of its three calls. A call
\* returns a text or raises; the text ResearchLLMService returns when only
\* its chat model failed is a text without the sign-off ("question",
\* "answer")
\* ------------------------------------------------------------------------
RoundOutcomes ==
    [q : {"question", "signoff", "raise"},
     search : {"docs", "empty", "fail"},
     a : {"answer", "raise"}]

\* ResearchWorkflow._search_for_context: formatted documents, the formatter's
\* text for an empty result, or the text returned when the search raised
search_for_context(outcome) ==
    CASE outcome = "docs" -> "<Document/>"
      [] outcome = "empty" -> "No search results found."
      [] OTHER -> "Search context unavailable"

\* ResearchWorkflow._format_interview_transcript
format_interview_transcript(messages) ==
    [i \in 1..Len(messages) |->
        [role |-> IF messages[i].name = "analyst" THEN "Analyst" ELSE "Expert",
         content |-> messages[i].content]]

RECURSIVE Rounds(_, _, _, _, _)
\* the `for turn in range(max_turns)` loop of conduct_interview; yields
\* [exc, messages, interview]
Rounds(turn, messages, interview, script, max_turns) ==
    IF turn >= max_turns
    THEN [exc |-> FALSE, messages |-> messages, interview |-> interview]
    ELSE
      LET o == script[turn + 1]
          question == IF o.q = "signoff" THEN SignOffText ELSE QuestionText
          m1 == Append(messages, [type |-> "human", content |-> question,
                                  name |-> "analyst"])
          search_context == search_for_context(o.search)
          iv1 == IF Truthy(search_context)
                 THEN add_context_to_interview(interview, <<search_context>>)
                 ELSE interview
          m2 == Append(m1, [type |-> "ai", content |-> AnswerText,
                            name |-> "expert"])
      IN IF o.q = "raise"
         THEN [exc |-> TRUE, messages |-> messages, interview |-> interview]
         ELSE IF o.a = "raise"
         THEN [exc |-> TRUE, messages |-> m1, interview |-> iv1]
         ELSE IF ~should_continue_interview(m2, max_turns)
         THEN [exc |-> FALSE, messages |-> m2, interview |-> iv1]
         ELSE Rounds(turn + 1, m2, iv1, script, max_turns)

\* ResearchWorkflow.conduct_interview with a loop bound one too large
conduct_interview_loop_off_by_one(u, nid, project_id, analyst, topic, max_turns, script) ==
    LET created == create_interview(nid, analyst, topic, max_turns)
        u0 == [u EXCEPT
                 !.interviews = Put(@, created.id, created),
                 !.analyst_interviews =
                     IndexAppend(@, created.analyst_id, created.id)]
    IN Only({
         IF r.exc
         THEN [exc |-> TRUE, val |-> NoValue, nextId |-> nid + 1,
               uow |-> aexit(TRUE, u,
                         [u0 EXCEPT
                            !.interviews = Put(@, created.id, r.interview)])]
         ELSE Only({
                [exc |-> FALSE, val |-> done, nextId |-> nid + 1,
                 uow |-> aexit(FALSE, u,
                           [u0 EXCEPT
                              !.interviews = RepoUpdate(@, done),
                              !.project_interviews =
                                  associate_with_project(@, project_id,
                                                         done.id)])]
                : done \in {complete_interview(update_interview_transcript(
                               r.interview,
                               format_interview_transcript(r.messages)))}})
         : r \in {Rounds(0, <<>>, created, script, max_turns + 1)}})

\* ResearchWorkflow.conduct_interview.  The Interview object stored by
\* interviews.create is the one the rounds mutate, so the repository sees the
\* context documents appended before an exception.
conduct_interview(u, nid, project_id, analyst, topic, max_turns, script) ==
    LET created == create_interview(nid, analyst, topic, max_turns)
        u0 == [u EXCEPT
                 !.interviews = Put(@, created.id, created),
                 !.analyst_interviews =
                     IndexAppend(@, created.analyst_id, created.id)]
    IN Only({
         IF r.exc
         THEN [exc |-> TRUE, val |-> NoValue, nextId |-> nid + 1,
               uow |-> aexit(TRUE, u,
                         [u0 EXCEPT
                            !.interviews = Put(@, created.id, r.interview)])]
         ELSE Only({
                [exc |-> FALSE, val |-> done, nextId |-> nid + 1,
                 uow |-> aexit(FALSE, u,
                           [u0 EXCEPT
                              !.interviews = RepoUpdate(@, done),
                              !.project_interviews =
                                  associate_with_project(@, project_id,
                                                         done.id)])]
                : done \in {complete_interview(update_interview_transcript(
                               r.interview,
                               format_interview_transcript(r.messages)))}})
         : r \in {Rounds(0, <<>>, created, script, max_turns)}})

SectionText == "## Perspective"

\* write_research_section that stores the section without associating it
\* with the project
write_research_section_unassociated(u, nid, project_id, interview, analyst, outcome) ==
    LET title == generate_section_title(analyst, interview.topic)
        section == create_section(nid, interview, analyst, title, SectionText)
        u1 == [u EXCEPT !.research_sections = Put(@, section.id, section)]
    IN IF outcome = "raise"
       THEN [exc |-> TRUE, val |-> NoValue, nextId |-> nid,
             uow |-> aexit(TRUE, u, u)]
       ELSE [exc |-> FALSE, val |-> section, nextId |-> nid + 1,
             uow |-> aexit(FALSE, u, u1)]

\* ResearchWorkflow.write_research_section; outcome is the section writer's:
\* "text" or "raise"
write_research_section(u, nid, project_id, interview, analyst, outcome) ==
    LET title == generate_section_title(analyst, interview.topic)
        section == create_section(nid, interview, analyst, title, SectionText)
        u1 == [u EXCEPT
                 !.research_sections = Put(@, section.id, section),
                 !.project_sections =
                     associate_with_project(@, project_id, section.id)]
    IN IF outcome = "raise"
       THEN [exc |-> TRUE, val |-> NoValue, nextId |-> nid,
             uow |-> aexit(TRUE, u, u)]
       ELSE [exc |-> FALSE, val |-> section, nextId |-> nid + 1,
             uow |-> aexit(FALSE, u, u1)]

\* ResearchWorkflow.get_project_status
get_project_status(u, project_id) ==
    IF project_id \notin DOMAIN u.research_projects
    THEN [exc |-> TRUE]
    ELSE
      LET project == u.research_projects[project_id]
      IN [exc |-> FALSE,
          project |-> project,
          analysts |-> get_by_project_id(u.analysts, u.project_analysts,
                                         project_id),
          interviews |-> get_by_project_id(u.interviews, u.project_interviews,
                                           project_id),
          sections |-> get_by_project_id(u.research_sections,
                                         u.project_sections, project_id),
          progress |-> get_project_progress(project),
          is_complete |-> is_project_complete(project)]

\* ------------------------------------------------------------------------
\* research_nodes.py: the stage functions.  A stage yields
\* [delta, uow, nextId, exc]: the state delta it returns, the repositories and
\* id source it leaves, and whether its body raised (and was caught).
\* ------------------------------------------------------------------------
StageResult(delta, u, nid, exc) ==
    [delta |-> delta, uow |-> u, nextId |-> nid, exc |-> exc]

create_project_node(state, u, nid) ==
    IF ~Truthy(state.topic)
    THEN StageResult(
            set_error_state("Topic is required to create a research project"),
            u, nid, FALSE)
    ELSE
      Only({
        IF r.exc
        THEN StageResult(
                set_error_state("Failed to create research project: ..."),
                r.uow, r.nextId, TRUE)
        ELSE StageResult(
                update_research_state(
                   [project_id |-> r.val.id,
                    project_status |-> r.val.status,
                    current_step |-> "project_created",
                    output_data |-> [kind |-> "project_created",
                                     project_id |-> r.val.id]]),
                r.uow, r.nextId, FALSE)
        : r \in {create_research_project(u, nid, state.topic,
                                         state.max_analysts)}})

generate_analysts_node(state, u, nid, outcome) ==
    IF state.project_id = NoId \/ ~Truthy(state.topic)
    THEN StageResult(
            set_error_state(
               "Project ID and topic are required to generate analysts"),
            u, nid, FALSE)
    ELSE
      Only({
        IF r.exc
        THEN StageResult(
                set_error_state("Failed to generate analysts: ..."),
                r.uow, r.nextId, TRUE)
        ELSE StageResult(
                update_research_state(
                   [analysts |-> r.val,
                    current_analyst_index |-> 0,
                    current_step |-> "analysts_created",
                    output_data |-> [kind |-> "analysts_generated",
                                     analysts_generated |-> Len(r.val)]]),
                r.uow, r.nextId, FALSE)
        : r \in {generate_analysts(u, nid, state.project_id, state.topic,
                                   state.max_analysts, state.human_feedback,
                                   outcome)}})

\* conduct_interview_node that does not check the analyst list and the
\* cursor: without an analyst at the cursor it interviews a blank analyst
conduct_interview_node_without_analyst_check(state, u, nid, script) ==
    IF state.project_id = NoId \/ ~Truthy(state.topic)
    THEN StageResult(
            set_error_state("Project ID and topic are required for interviews"),
            u, nid, FALSE)
    ELSE
      LET current_analyst ==
              IF state.current_analyst_index < Len(state.analysts)
              THEN state.analysts[state.current_analyst_index + 1]
              ELSE [id |-> NoId, name |-> "", role |-> "",
                    affiliation |-> "", description |-> ""]
      IN Only({
           IF r.exc
           THEN StageResult(
                   set_error_state("Failed to conduct interview: ..."),
                   r.uow, r.nextId, TRUE)
           ELSE StageResult(
                   update_research_state(
                      [interviews |-> Append(state.interviews, r.val),
                       current_step |-> "interview_completed",
                       output_data |-> [kind |-> "interview_completed",
                                        interview_id |-> r.val.id]]),
                   r.uow, r.nextId, FALSE)
           : r \in {conduct_interview(u, nid, state.project_id,
                                      current_analyst, state.topic,
                                      state.max_interview_turns, script)}})

conduct_interview_node(state, u, nid, script) ==
    IF state.project_id = NoId \/ ~Truthy(state.topic)
    THEN StageResult(
            set_error_state("Project ID and topic are required for interviews"),
            u, nid, FALSE)
    ELSE IF Len(state.analysts) = 0
            \/ state.current_analyst_index >= Len(state.analysts)
    THEN StageResult(set_error_state("No analysts available for interview"),
                     u, nid, FALSE)
    ELSE
      LET current_analyst == state.analysts[state.current_analyst_index + 1]
      IN Only({
           IF r.exc
           THEN StageResult(
                   set_error_state("Failed to conduct interview: ..."),
                   r.uow, r.nextId, TRUE)
           ELSE StageResult(
                   update_research_state(
                      [interviews |-> Append(state.interviews, r.val),
                       current_step |-> "interview_completed",
                       output_data |-> [kind |-> "interview_completed",
                                        interview_id |-> r.val.id]]),
                   r.uow, r.nextId, FALSE)
           : r \in {conduct_interview(u, nid, state.project_id,
                                      current_analyst, state.topic,
                                      state.max_interview_turns, script)}})

\* write_section_node that always writes from the first interview of the
\* list instead of the one at the cursor
write_section_node_from_first_interview(state, u, nid, outcome) ==
    IF state.project_id = NoId
    THEN StageResult(
            set_error_state("Project ID is required to write sections"),
            u, nid, FALSE)
    ELSE IF Len(state.analysts) = 0
            \/ state.current_analyst_index >= Len(state.analysts)
    THEN StageResult(
            set_error_state("No analysts available for section writing"),
            u, nid, FALSE)
    ELSE IF Len(state.interviews) = 0
            \/ Len(state.interviews) <= state.current_analyst_index
    THEN StageResult(
            set_error_state(
               "No corresponding interview found for section writing"),
            u, nid, FALSE)
    ELSE
      LET current_analyst == state.analysts[state.current_analyst_index + 1]
          current_interview == state.interviews[1]
      IN Only({
           IF r.exc
           THEN StageResult(
                   set_error_state("Failed to write research section: ..."),
                   r.uow, r.nextId, TRUE)
           ELSE StageResult(
                   update_research_state(
                      [sections |-> Append(state.sections, r.val),
                       current_step |-> "section_written",
                       output_data |-> [kind |-> "section_written",
                                        section_id |-> r.val.id]]),
                   r.uow, r.nextId, FALSE)
           : r \in {write_research_section(u, nid, state.project_id,
                                           current_interview, current_analyst,
                                           outcome)}})

write_section_node(state, u, nid, outcome) ==
    IF state.project_id = NoId
    THEN StageResult(
            set_error_state("Project ID is required to write sections"),
            u, nid, FALSE)
    ELSE IF Len(state.analysts) = 0
            \/ state.current_analyst_index >= Len(state.analysts)
    THEN StageResult(
            set_error_state("No analysts available for section writing"),
            u, nid, FALSE)
    ELSE IF Len(state.interviews) = 0
            \/ Len(state.interviews) <= state.current_analyst_index
    THEN StageResult(
            set_error_state(
               "No corresponding interview found for section writing"),
            u, nid, FALSE)
    ELSE
      LET current_analyst == state.analysts[state.current_analyst_index + 1]
          current_interview == state.interviews[state.current_analyst_index + 1]
      IN Only({
           IF r.exc
           THEN StageResult(
                   set_error_state("Failed to write research section: ..."),
                   r.uow, r.nextId, TRUE)
           ELSE StageResult(
                   update_research_state(
                      [sections |-> Append(state.sections, r.val),
                       current_step |-> "section_written",
                       output_data |-> [kind |-> "section_written",
                                        section_id |-> r.val.id]]),
                   r.uow, r.nextId, FALSE)
           : r \in {write_research_section(u, nid, state.project_id,
                                           current_interview, current_analyst,
                                           outcome)}})

\* advance_analyst_node that leaves the cursor where it is
advance_analyst_node_keeping_cursor(state, u, nid) ==
    StageResult(
       update_research_state(
          [current_analyst_index |-> state.current_analyst_index,
           current_step |-> "next_analyst_ready"]),
       u, nid, FALSE)

advance_analyst_node(state, u, nid) ==
    LET next_index == state.current_analyst_index + 1
    IN IF next_index >= Len(state.analysts)
       THEN StageResult(
               update_research_state(
                  [current_analyst_index |-> next_index,
                   current_step |-> "all_analysts_processed"]),
               u, nid, FALSE)
       ELSE StageResult(
               update_research_state(
                  [current_analyst_index |-> next_index,
                   current_step |-> "next_analyst_ready"]),
               u, nid, FALSE)

\* analyst_name of a section summary: next(a.name ... , "Unknown")
AnalystNameOf(analysts, analyst_id) ==
    LET hits == SelectSeq(analysts, LAMBDA a : a.id = analyst_id)
    IN IF Len(hits) = 0 THEN "Unknown" ELSE hits[1].name

complete_research_node(state, u, nid) ==
    IF state.project_id = NoId
    THEN StageResult(
            set_error_state("Project ID is required to complete research"),
            u, nid, FALSE)
    ELSE
      Only({
        IF status_info.exc
        THEN StageResult(
                set_error_state("Failed to complete research: ..."),
                aexit(TRUE, u, u), nid, TRUE)
        ELSE
          LET project == IF status_info.project.status # "completed"
                         THEN update_project_status(status_info.project,
                                                    "completed")
                         ELSE status_info.project
              u1 == [u EXCEPT !.research_projects = RepoUpdate(@, project)]
              output_data ==
                 [kind |-> "research_completed",
                  project_id |-> project.id,
                  topic |-> project.topic,
                  total_analysts |-> Len(status_info.analysts),
                  total_interviews |-> Len(status_info.interviews),
                  total_sections |-> Len(status_info.sections),
                  project_status |-> project.status,
                  sections |->
                     [i \in 1..Len(status_info.sections) |->
                        [title |-> status_info.sections[i].title,
                         content |-> status_info.sections[i].content,
                         analyst_name |->
                            AnalystNameOf(status_info.analysts,
                               status_info.sections[i].analyst_id)]]]
          IN StageResult(set_success_state(output_data), u1, nid, FALSE)
        : status_info \in {get_project_status(u, state.project_id)}})

\* human_feedback_node that also discards the generated analysts
human_feedback_node_discarding_analysts(state) ==
    IF NonBlank(state.human_feedback)
    THEN update_research_state(
            [human_feedback |-> None, current_step |-> "feedback_processed",
             analysts |-> <<>>])
    ELSE update_research_state(
            [current_step |-> "awaiting_human_feedback", analysts |-> <<>>])

human_feedback_node(state) ==
    IF NonBlank(state.human_feedback)
    THEN update_research_state(
            [human_feedback |-> None, current_step |-> "feedback_processed"])
    ELSE update_research_state([current_step |-> "awaiting_human_feedback"])

\* Routing functions
\* should_continue_interviews comparing with <= instead of <
should_continue_interviews_inclusive(state) ==
    IF state.current_analyst_index <= Len(state.analysts)
    THEN "conduct_interview"
    ELSE "complete_research"

should_continue_interviews(state) ==
    IF state.current_analyst_index < Len(state.analysts)
    THEN "conduct_interview"
    ELSE "complete_research"

\* should_process_human_feedback testing only `human_feedback is not None`
should_process_any_feedback(state) ==
    IF state.human_feedback # None
    THEN "process_feedback"
    ELSE "continue_workflow"

should_process_human_feedback(state) ==
    IF NonBlank(state.human_feedback)
       /\ state.current_step = "awaiting_human_feedback"
    THEN "process_feedback"
    ELSE "continue_workflow"

\* ------------------------------------------------------------------------
\* research_orchestrator.py: the compiled graph and its entry points
\* ------------------------------------------------------------------------
\* build_graph: the edges.  The successor of a node is fixed, except after
\* human_feedback and advance_analyst, where the routing function decides on
\* the state the node left.
EdgeAfter(node, state) ==
    CASE node = "create_project" -> "generate_analysts"
      [] node = "generate_analysts" -> "human_feedback"
      [] node = "human_feedback" ->
            IF should_process_human_feedback(state) = "process_feedback"
            THEN "generate_analysts" ELSE "conduct_interview"
      [] node = "conduct_interview" -> "write_section"
      [] node = "write_section" -> "advance_analyst"
      [] node = "advance_analyst" ->
            IF should_continue_interviews(state) = "conduct_interview"
            THEN "conduct_interview" ELSE "complete_research"
      [] OTHER -> "END"

\* interrupt_before that also names write_section
InterruptBefore_with_write_section == {"human_feedback", "write_section"}

\* compile(interrupt_before=["human_feedback"])
InterruptBefore == {"human_feedback"}

\* topic[:10]
Prefix10(topic) ==
    CASE topic = "Design patterns" -> "Design pat"
      [] topic = "Design patents" -> "Design pat"
      [] topic = "Graph theory" -> "Graph theo"
      [] OTHER -> topic

\* default thread_config of the two start entry points
ThreadConfig(entry, topic) ==
    IF entry = "run_research_with_interruption"
    THEN <<"research_interactive_", Prefix10(topic)>>
    ELSE <<"research_", Prefix10(topic)>>

\* inputs a caller passes
MaxAnalystsInputs == {0, 1, MaxBatch, MaxAnalystsLimit + 1}
MaxTurnsInputs == 1..MaxTurnsBound
MaxResumes == 2

NoReturn == [status |-> "none"]
NoGate == [taken |-> FALSE]
NoStage == [stage |-> "none", exc |-> FALSE, failed |-> FALSE]
IdleHarness == [used |-> FALSE]
\* no domain service operation called yet
IdleService == [op |-> "none"]

\* scripts of the question/search/answer ports played in a workflow run
Script(first) ==
    [t \in 1..(MaxTurnsBound + 1) |->
        IF t = 1 THEN first
        ELSE [q |-> "question", search |-> "docs", a |-> "answer"]]

RunScripts ==
    {Script([q |-> "question", search |-> "docs", a |-> "answer"]),
     Script([q |-> "signoff", search |-> "docs", a |-> "answer"]),
     Script([q |-> "raise", search |-> "docs", a |-> "answer"]),
     Script([q |-> "question", search |-> "fail", a |-> "raise"])}

Init ==
    /\ st = initial_state("", 0, 1, None)
    /\ next = "none"
    /\ phase = "idle"
    /\ api = "none"
    /\ ret = NoReturn
    /\ uow = EmptyUow
    /\ nextId = 1
    /\ trace = <<>>
    /\ lastStage = NoStage
    /\ gate = NoGate
    /\ resumes = <<>>
    /\ ivIn = IdleHarness
    /\ ivOut = IdleHarness
    /\ svcIn = IdleService
    /\ svcOut = IdleService
    /\ saver = EmptyMap
    /\ runs = <<>>

\* graph.astream(initial_state, thread_config): the input becomes the
\* checkpoint and START schedules create_project
StartStream(entry, topic, max_analysts, max_interview_turns, human_feedback) ==
    /\ phase = "idle"
    /\ st' = initial_state(topic, max_analysts, max_interview_turns,
                           human_feedback)
    /\ next' = "create_project"
    /\ phase' = "running"
    /\ api' = entry
    /\ UNCHANGED <<ret, uow, nextId, trace, lastStage, gate, resumes,
                   ivIn, ivOut, svcIn, svcOut, saver, runs>>

run_research ==
    \E topic \in Topics, max_analysts \in MaxAnalystsInputs,
       max_interview_turns \in MaxTurnsInputs,
       human_feedback \in {None} \cup Feedbacks :
        StartStream("run_research", topic, max_analysts, max_interview_turns,
                    human_feedback)

run_research_with_interruption ==
    \E topic \in Topics, max_analysts \in MaxAnalystsInputs,
       max_interview_turns \in MaxTurnsInputs :
        StartStream("run_research_with_interruption", topic, max_analysts,
                    max_interview_turns, None)

\* one superstep of the runner: the node ran with result r, its delta is
\* applied to the channels and the node's edge schedules the successor
RunStage(node, r) ==
    /\ st' = ApplyDelta(st, r.delta)
    /\ uow' = r.uow
    /\ nextId' = r.nextId
    /\ next' = EdgeAfter(node, ApplyDelta(st, r.delta))
    /\ trace' = Append(trace, [stage |-> node,
                               idx |-> st.current_analyst_index,
                               fb |-> st.human_feedback,
                               exc |-> r.exc])
    /\ lastStage' = [stage |-> node, exc |-> r.exc,
                     failed |-> "error" \in DOMAIN r.delta]
    /\ phase' = "running"
    /\ UNCHANGED <<api, ret, gate, resumes, ivIn, ivOut, svcIn, svcOut, saver, runs>>

CreateProject ==
    /\ phase = "running" /\ next = "create_project"
    /\ \E r \in {create_project_node(st, uow, nextId)} :
          RunStage("create_project", r)

GenerateAnalysts ==
    /\ phase = "running" /\ next = "generate_analysts"
    /\ \E outcome \in GeneratorOutcomes :
          \E r \in {generate_analysts_node(st, uow, nextId, outcome)} :
             RunStage("generate_analysts", r)

\* human_feedback is in interrupt_before: it runs only as the first node of a
\* stream that resumes the interrupted checkpoint
HumanFeedback ==
    /\ phase = "resuming" /\ next = "human_feedback"
    /\ \E r \in {StageResult(human_feedback_node(st), uow, nextId, FALSE)} :
          RunStage("human_feedback", r)

ConductInterview ==
    /\ phase = "running" /\ next = "conduct_interview"
    /\ \E script \in RunScripts :
          \E r \in {conduct_interview_node(st, uow, nextId, script)} :
             RunStage("conduct_interview", r)

WriteSection ==
    /\ phase = "running" /\ next = "write_section"
    /\ \E outcome \in {"text", "raise"} :
          \E r \in {write_section_node(st, uow, nextId, outcome)} :
             RunStage("write_section", r)

AdvanceAnalyst ==
    /\ phase = "running" /\ next = "advance_analyst"
    /\ \E r \in {advance_analyst_node(st, uow, nextId)} :
          RunStage("advance_analyst", r)

CompleteResearch ==
    /\ phase = "running" /\ next = "complete_research"
    /\ \E r \in {complete_research_node(st, uow, nextId)} :
          RunStage("complete_research", r)

\* what the entry point hands to its caller when its stream ends
ReturnValue(entry, state) ==
    IF entry = "run_research_with_interruption"
    THEN [status |-> "paused_for_feedback",
          current_state |-> state,
          thread_config |-> ThreadConfig(entry, state.topic)]
    ELSE [status |-> "result", current_state |-> state,
          thread_config |-> ThreadConfig(entry, state.topic)]

\* the stream ends: the runner stops before a node of interrupt_before, or
\* the graph reached END; the entry point returns
StreamEnds ==
    /\ phase = "running"
    /\ next \in InterruptBefore \cup {"END"}
    /\ phase' = IF next = "END" THEN "done" ELSE "paused"
    /\ ret' = ReturnValue(api, st)
    /\ gate' = IF next = "END" THEN gate
               ELSE [taken |-> TRUE, st |-> st, uow |-> uow, at |-> Len(trace)]
    /\ UNCHANGED <<st, next, api, uow, nextId, trace, lastStage, resumes,
                   ivIn, ivOut, svcIn, svcOut, saver, runs>>

\* continue_research_with_feedback: update_state(..., as_node="human_feedback")
\* writes the feedback as if the gate had run and lets its conditional edge
\* route on the updated state; astream(None, ...) then resumes
continue_research_with_feedback ==
    /\ phase = "paused"
    /\ Len(resumes) < MaxResumes
    /\ \E human_feedback \in Feedbacks :
          LET updated == ApplyDelta(st, [human_feedback |-> human_feedback])
          IN /\ st' = updated
             /\ next' = EdgeAfter("human_feedback", updated)
             /\ resumes' = Append(resumes, [via |-> "continue",
                                            fb |-> human_feedback])
    /\ phase' = "running"
    /\ api' = "continue_research_with_feedback"
    /\ UNCHANGED <<ret, uow, nextId, trace, lastStage, gate, ivIn, ivOut, svcIn, svcOut, saver, runs>>

\* the compiled graph handed out by research_entry.py is resumed as it stands
\* (astream(None, thread_config) on the interrupted thread): the gate runs
ResumeGraph ==
    /\ phase = "paused"
    /\ Len(resumes) < MaxResumes
    /\ phase' = "resuming"
    /\ api' = "graph"
    /\ resumes' = Append(resumes, [via |-> "graph", fb |-> st.human_feedback])
    /\ UNCHANGED <<st, next, ret, uow, nextId, trace, lastStage, gate,
                   ivIn, ivOut, svcIn, svcOut, saver, runs>>

Next ==
    \/ run_research
    \/ run_research_with_interruption
    \/ CreateProject
    \/ GenerateAnalysts
    \/ HumanFeedback
    \/ ConductInterview
    \/ WriteSection
    \/ AdvanceAnalyst
    \/ CompleteResearch
    \/ StreamEnds
    \/ continue_research_with_feedback
    \/ ResumeGraph

Spec == Init /\ [][Next]_vars

TypeOK ==
    /\ phase \in {"idle", "running", "resuming", "paused", "done"}
    /\ st.current_analyst_index \in Nat

\* ------------------------------------------------------------------------
\* The interview engine on its own: one call of
\* ResearchWorkflow.conduct_interview for every analyst, topic, turn bound and
\* every behaviour of the question, search and answer ports
\* ------------------------------------------------------------------------
HarnessAnalysts == {WithIds(RosterBatch(MaxBatch), 10)[i] : i \in 1..MaxBatch}
HarnessScripts == [1..(MaxTurnsBound + 1) -> RoundOutcomes]

InterviewCall ==
    /\ ~ivIn.used
    /\ \E analyst \in HarnessAnalysts, topic \in Topics \ {""},
          max_turns \in MaxTurnsInputs, script \in HarnessScripts :
          LET r == conduct_interview(EmptyUow, 20, 1, analyst, topic,
                                     max_turns, script)
          IN /\ ivIn' = [used |-> TRUE, analyst |-> analyst, topic |-> topic,
                         max_turns |-> max_turns, first |-> script[1]]
             /\ ivOut' = [used |-> TRUE, exc |-> r.exc, val |-> r.val,
                          uow |-> r.uow]
    /\ UNCHANGED <<st, next, phase, api, ret, uow, nextId, trace, lastStage,
                   gate, resumes, svcIn, svcOut, saver, runs>>

InterviewNext == InterviewCall

InterviewSpec == Init /\ [][InterviewNext]_vars

\* ------------------------------------------------------------------------
\* Several runs on the one compiled graph: the orchestrator keeps a single
\* MemorySaver and a single unit of work; a run is addressed by the thread id
\* of its thread_config.  Stages of different runs interleave.
\* ------------------------------------------------------------------------
MaxRuns == 2
ThreadTopics == {"Design patterns", "Design patents", "Graph theory"}
ThreadFeedbacks == {""}

\* ports of a run in which no collaborator fails
ThreadNode(node, state, u, nid) ==
    CASE node = "generate_analysts" ->
            generate_analysts_node(state, u, nid,
                [kind |-> "batch", batch |-> RosterBatch(1)])
      [] node = "conduct_interview" ->
            conduct_interview_node(state, u, nid,
                Script([q |-> "question", search |-> "docs", a |-> "answer"]))
      [] node = "write_section" -> write_section_node(state, u, nid, "text")
      [] node = "advance_analyst" -> advance_analyst_node(state, u, nid)
      [] OTHER -> complete_research_node(state, u, nid)

\* run_research / run_research_with_interruption with the default
\* thread_config: astream(initial_state, thread_config) writes the input over
\* the thread's checkpoint and runs create_project and generate_analysts up
\* to the interruption before the gate
ThreadStart(entry, topic) ==
    /\ Len(runs) < MaxRuns
    /\ \E r1 \in {create_project_node(
                      initial_state(topic, 1, 1, None), uow, nextId)} :
        \E s1 \in {ApplyDelta(initial_state(topic, 1, 1, None),
                              r1.delta)} :
        \E r2 \in {generate_analysts_node(s1, r1.uow, r1.nextId,
                      [kind |-> "batch", batch |-> RosterBatch(1)])} :
        \E s2 \in {ApplyDelta(s1, r2.delta)} :
           /\ saver' = Put(saver, ThreadConfig(entry, topic),
                           [st |-> s2,
                            next |-> EdgeAfter("generate_analysts", s2),
                            running |-> FALSE])
           /\ runs' = Append(runs, [thread |-> ThreadConfig(entry, topic),
                                    entry |-> entry,
                                    topic |-> topic,
                                    project_id |-> s2.project_id,
                                    analysts |-> s2.analysts])
           /\ uow' = r2.uow
           /\ nextId' = r2.nextId
    /\ UNCHANGED <<st, next, phase, api, ret, trace, lastStage, gate, resumes,
                   ivIn, ivOut, svcIn, svcOut>>

\* continue_research_with_feedback(human_feedback, thread_config) on a
\* suspended thread: update_state as the gate, then the stream resumes
ThreadContinue(tid, human_feedback) ==
    /\ tid \in DOMAIN saver
    /\ saver[tid].next = "human_feedback"
    /\ ~saver[tid].running
    /\ \E updated \in {ApplyDelta(saver[tid].st,
                                   [human_feedback |-> human_feedback])} :
          saver' = Put(saver, tid,
                       [st |-> updated,
                        next |-> EdgeAfter("human_feedback", updated),
                        running |-> TRUE])
    /\ UNCHANGED <<st, next, phase, api, ret, uow, nextId, trace, lastStage,
                   gate, resumes, ivIn, ivOut, svcIn, svcOut, runs>>

\* one superstep of the resumed stream of a thread
ThreadStage(tid) ==
    /\ tid \in DOMAIN saver
    /\ saver[tid].running
    /\ saver[tid].next \notin {"END", "human_feedback"}
    /\ \E r \in {ThreadNode(saver[tid].next, saver[tid].st, uow, nextId)} :
        \E s1 \in {ApplyDelta(saver[tid].st, r.delta)} :
        \E n1 \in {EdgeAfter(saver[tid].next, s1)} :
           /\ saver' = Put(saver, tid,
                           [st |-> s1, next |-> n1, running |-> n1 # "END"])
           /\ uow' = r.uow
           /\ nextId' = r.nextId
    /\ UNCHANGED <<st, next, phase, api, ret, trace, lastStage, gate, resumes,
                   ivIn, ivOut, svcIn, svcOut, runs>>

ThreadsNext ==
    \/ \E entry \in {"run_research", "run_research_with_interruption"},
          topic \in ThreadTopics :
          ThreadStart(entry, topic)
    \/ \E tid \in DOMAIN saver, human_feedback \in ThreadFeedbacks :
          ThreadContinue(tid, human_feedback)
    \/ \E tid \in DOMAIN saver : ThreadStage(tid)

ThreadsSpec == Init /\ [][ThreadsNext]_vars

\* the runner's own steps: once a stream is open the runner keeps executing
\* the scheduled node until the stream ends (callers are under no obligation)
RunnerStep ==
    \/ CreateProject
    \/ GenerateAnalysts
    \/ HumanFeedback
    \/ ConductInterview
    \/ WriteSection
    \/ AdvanceAnalyst
    \/ CompleteResearch
    \/ StreamEnds

LiveSpec == Spec /\ WF_vars(RunnerStep)

\* ------------------------------------------------------------------------
\* Properties
\* ------------------------------------------------------------------------
ExpertTurns(interview) ==
    Len(SelectSeq(interview.transcript, LAMBDA e : e.role = "Expert"))

AnalystTurns(interview) ==
    SelectSeq(interview.transcript, LAMBDA e : e.role = "Analyst")

\* stages executed after the suspension at the gate
StagesAfterGate == SubSeq(trace, gate.at + 1, Len(trace))

StageIndexes(seq, stage) == {i \in 1..Len(seq) : seq[i].stage = stage}

Resumed == Len(resumes) > 0

\* C1: whatever texts the question, answer and search ports return,
\* conduct_interview returns an interview with at most max_turns expert
\* responses and with completed_at set.
C1_InterviewWithinTurnCap ==
    (ivOut.used /\ ~ivOut.exc) =>
        /\ ExpertTurns(ivOut.val) <= ivIn.max_turns
        /\ ExpertTurns(ivOut.val) >= 1
        /\ ivOut.val.completed_at

\* an interview whose analyst never signed off and that ran to the cap
C1_Witness ==
    /\ ivOut.used /\ ~ivOut.exc
    /\ ivIn.max_turns >= 2
    /\ ExpertTurns(ivOut.val) = ivIn.max_turns
    /\ \A i \in 1..Len(AnalystTurns(ivOut.val)) :
          ~ContainsSignOff(AnalystTurns(ivOut.val)[i].content)
    /\ ivOut.val.completed_at

Terminal ==
    /\ phase = "done"
    /\ next = "END"
    /\ st.workflow_complete
    /\ (st.success \/ Truthy(st.error))

SuspendedWithAnalysts ==
    /\ gate.taken
    /\ ~gate.st.workflow_complete
    /\ Len(gate.st.analysts) > 0

\* C3: resuming a suspended run through continue_research_with_feedback with
\* non-blank feedback executes generate_analysts exactly once more, with that
\* feedback, before the first conduct_interview.
C3_RegeneratesOnceOnFeedback ==
    (/\ Resumed
     /\ SuspendedWithAnalysts
     /\ resumes[1].via = "continue"
     /\ NonBlank(resumes[1].fb)
     /\ StageIndexes(StagesAfterGate, "conduct_interview") # {}) =>
        LET after == StagesAfterGate
            firstInterview ==
                CHOOSE i \in StageIndexes(after, "conduct_interview") :
                    \A j \in StageIndexes(after, "conduct_interview") : i <= j
            regen == {i \in StageIndexes(after, "generate_analysts") :
                        i < firstInterview}
        IN /\ Cardinality(regen) = 1
           /\ \A i \in regen : after[i].fb = resumes[1].fb

\* C4: run_research_with_interruption suspends with current_step equal to
\* awaiting_human_feedback and returns paused_for_feedback with the thread
\* identifier of the run.
C4_SuspendsAwaitingFeedback ==
    (/\ phase = "paused"
     /\ api = "run_research_with_interruption"
     /\ SuspendedWithAnalysts) =>
        /\ st.current_step = "awaiting_human_feedback"
        /\ ret.status = "paused_for_feedback"
        /\ ret.thread_config = ThreadConfig(api, st.topic)

\* C5: resuming with feedback "" goes straight to conduct_interview:
\* generate_analysts does not run again and the analyst list stays the one
\* held at the suspension.
C5_EmptyFeedbackKeepsAnalysts ==
    (Resumed /\ resumes[1].via = "continue" /\ resumes[1].fb = "") =>
        /\ st.analysts = gate.st.analysts
        /\ StageIndexes(StagesAfterGate, "generate_analysts") = {}
        /\ StageIndexes(StagesAfterGate, "human_feedback") = {}
        /\ Len(StagesAfterGate) > 0 =>
              StagesAfterGate[1].stage = "conduct_interview"

\* a run resumed with "" that interviewed the analysts held at the gate
C5_Witness ==
    /\ Resumed /\ resumes[1].via = "continue" /\ resumes[1].fb = ""
    /\ Len(gate.st.analysts) >= 2
    /\ Len(st.interviews) = Len(gate.st.analysts)
    /\ phase = "done"

\* C6: once the gate has processed a non-blank feedback, human_feedback is
\* unset or blank in every later state.
C6_FeedbackClearedAfterGate ==
    (/\ SuspendedWithAnalysts
     /\ \E i \in 1..Len(trace) :
           trace[i].stage = "human_feedback" /\ NonBlank(trace[i].fb)) =>
        ~NonBlank(st.human_feedback)

ErrorTerminal == st.workflow_complete /\ ~st.success /\ Truthy(st.error)

\* C7: once a stage has returned an error delta, no further stage executes
\* and neither the workflow state nor the repositories change.
C7_ErrorStateIsFinal ==
    [][ErrorTerminal => (trace' = trace /\ st' = st /\ uow' = uow)]_vars

\* C8: success = true implies that error is unset.
C8_SuccessHasNoError == st.success => st.error = None

\* the step is an execution of the given stage
StageStep(stage) ==
    /\ Len(trace') = Len(trace) + 1
    /\ trace'[Len(trace')].stage = stage

CountFor(seq, analyst_id) ==
    Cardinality({i \in 1..Len(seq) : seq[i].analyst_id = analyst_id})

\* C9: advance_analyst moves the cursor from i to i+1 only when analyst i has
\* exactly one interview and exactly one section in the state's lists.
C9_AdvanceNeedsInterviewAndSection ==
    [][(/\ StageStep("advance_analyst")
        /\ st'.current_analyst_index = st.current_analyst_index + 1
        /\ st.current_analyst_index < Len(st.analysts)) =>
          /\ CountFor(st.interviews,
                st.analysts[st.current_analyst_index + 1].id) = 1
          /\ CountFor(st.sections,
                st.analysts[st.current_analyst_index + 1].id) = 1]_vars

\* C10: a stage whose body raised leaves the repositories and the
\* project-association indexes as they were before the stage started.
C10_FailedStageLeavesNoRecord ==
    [][(Len(trace') = Len(trace) + 1 /\ lastStage'.exc) => uow' = uow]_vars

\* C11: a stage whose body raised has handed the runner the error delta
\* instead of the exception: the state carries a non-empty error,
\* success = false and workflow_complete = true.
C11_RaisedStageYieldsErrorDelta ==
    lastStage.exc =>
        /\ lastStage.failed
        /\ Truthy(st.error)
        /\ ~st.success
        /\ st.workflow_complete

\* an interview stage in which a port raised, caught at the stage boundary
C11_Witness ==
    /\ lastStage.exc
    /\ lastStage.stage = "conduct_interview"
    /\ st.error = "Failed to conduct interview: ..."
    /\ next = "write_section"

\* positions of the advance_analyst executions that left the cursor at or
\* beyond the end of the analyst list
LastAdvances ==
    {i \in StageIndexes(trace, "advance_analyst") :
        trace[i].idx + 1 >= Len(st.analysts)}

\* C12: after an advance_analyst that leaves current_analyst_index >=
\* len(analysts), the next stage executed is complete_research and
\* conduct_interview does not execute again.
C12_CursorAtEndGoesToCompletion ==
    \A i \in LastAdvances :
        /\ i = Len(trace) => next = "complete_research"
        /\ i < Len(trace) => trace[i + 1].stage = "complete_research"
        /\ \A j \in StageIndexes(trace, "conduct_interview") : j < i

\* a run over two analysts completed after the second advance
C12_Witness ==
    /\ Len(st.analysts) = 2
    /\ LastAdvances # {}
    /\ StageIndexes(trace, "complete_research") # {}
    /\ Cardinality(StageIndexes(trace, "conduct_interview")) = 2

\* position of the analyst with the given name in the analyst list, 0 when
\* no analyst has that name
AnalystPos(analysts, name) ==
    LET hits == {i \in 1..Len(analysts) : analysts[i].name = name}
    IN IF hits = {} THEN 0
       ELSE CHOOSE i \in hits : \A j \in hits : i <= j

ReportAssembled == st.success /\ st.output_data.kind = "research_completed"

\* C13: write_section for analyst i executes after conduct_interview for i
\* and before conduct_interview for i+1, and the section summaries of the
\* final output are in analyst-generation order.
C13_StagesInAnalystOrder ==
    /\ \A p \in StageIndexes(trace, "write_section") :
          /\ \E q \in StageIndexes(trace, "conduct_interview") :
                q < p /\ trace[q].idx = trace[p].idx
          /\ \A q \in StageIndexes(trace, "conduct_interview") :
                trace[q].idx = trace[p].idx + 1 => p < q
    /\ \A q \in StageIndexes(trace, "conduct_interview") :
          trace[q].idx > 0 =>
             \E p \in StageIndexes(trace, "write_section") :
                p < q /\ trace[p].idx = trace[q].idx - 1
    /\ ReportAssembled =>
          LET summaries == st.output_data.sections
          IN \A i, j \in 1..Len(summaries) :
                /\ AnalystPos(st.analysts, summaries[i].analyst_name) > 0
                /\ i < j =>
                      AnalystPos(st.analysts, summaries[i].analyst_name)
                        < AnalystPos(st.analysts, summaries[j].analyst_name)

\* a completed run whose report lists the sections of two analysts
C13_Witness ==
    /\ ReportAssembled
    /\ Len(st.output_data.sections) = 2
    /\ Cardinality(StageIndexes(trace, "write_section")) = 2
    /\ phase = "done"

\* C14: a run in which no stage failed and generation yielded n analysts
\* ends with a report of n analysts, n interviews and n sections, project
\* status completed and one section summary per analyst; with
\* max_interview_turns = 1 every interview holds exactly one expert turn.
C14_FailureFreeRunReportsAll ==
    (phase = "done" /\ ReportAssembled /\ st.error = None) =>
        LET n == Len(st.analysts)
            out == st.output_data
        IN /\ n >= 1
           /\ out.total_analysts = n
           /\ out.total_interviews = n
           /\ out.total_sections = n
           /\ out.project_status = "completed"
           /\ Len(out.sections) = n
           /\ \A i \in 1..n :
                 out.sections[i].analyst_name = st.analysts[i].name
           /\ Len(st.interviews) = n
           /\ st.max_interview_turns = 1 =>
                 \A i \in 1..n : ExpertTurns(st.interviews[i]) = 1

\* the end-to-end scenario: two analysts, one turn each, no failure
C14_Witness ==
    /\ phase = "done" /\ ReportAssembled /\ st.error = None
    /\ st.topic = "Design patterns"
    /\ st.max_analysts = 2
    /\ st.max_interview_turns = 1
    /\ Len(st.analysts) = 2
    /\ st.output_data.total_sections = 2

\* generate_analysts was executed and its body raised every time
GeneratorAlwaysFailed ==
    /\ StageIndexes(trace, "generate_analysts") # {}
    /\ \A i \in StageIndexes(trace, "generate_analysts") : trace[i].exc

\* C15: when the persona generation failed on every call, the finished run
\* has workflow_complete = true, success = false and a non-empty error, and
\* the project record still has status created.
C15_GeneratorFailureEndsInError ==
    (phase = "done" /\ GeneratorAlwaysFailed) =>
        /\ st.workflow_complete
        /\ ~st.success
        /\ Truthy(st.error)
        /\ uow.research_projects[st.project_id].status = "created"

\* C16: the state run_research returns is terminal: workflow_complete is
\* set, and when no stage failed it has success = true and carries the
\* assembled report.
C16_RunResearchReturnsTerminal ==
    (api = "run_research" /\ phase \in {"paused", "done"}) =>
        /\ ret.current_state.workflow_complete
        /\ ret.current_state.error = None =>
              /\ ret.current_state.success
              /\ ret.current_state.output_data.kind = "research_completed"

\* C17: when create_project or generate_analysts returned an error delta,
\* run_research_with_interruption does not report paused_for_feedback.
C17_FailedStartIsNotReportedPaused ==
    (/\ api = "run_research_with_interruption"
     /\ phase = "paused"
     /\ Truthy(st.error)) =>
        ret.status # "paused_for_feedback"

\* C19: control returns to the caller before the end of the run only
\* immediately before the human-feedback gate, and while the run is suspended
\* no stage has executed and the checkpointed state and the repositories are
\* those of the suspension.
C19_SuspendsOnlyAtGate ==
    /\ phase = "paused" =>
          /\ next = "human_feedback"
          /\ gate.taken
          /\ st = gate.st
          /\ uow = gate.uow
          /\ Len(trace) = gate.at
    /\ phase = "done" => next = "END"

\* a run suspended before the gate with its analysts generated
C19_Witness ==
    /\ phase = "paused"
    /\ SuspendedWithAnalysts
    /\ Len(trace) = 2
    /\ trace[2].stage = "generate_analysts"

\* C20: for a valid topic and 1 <= max_analysts <= 10, a generate_analysts
\* stage that succeeded left between 1 and max_analysts analysts, all valid
\* and with pairwise-distinct names.
C20_GeneratedAnalystsWithinRequest ==
    (/\ lastStage.stage = "generate_analysts"
     /\ ~lastStage.failed
     /\ validate_analyst_requirements(st.topic, st.max_analysts)) =>
        /\ Len(st.analysts) >= 1
        /\ Len(st.analysts) <= st.max_analysts
        /\ validate_analyst_personas(st.analysts)
        /\ ~HasDuplicateNames(st.analysts)

\* C18: runs started for different topics have different thread ids, and
\* the checkpoint a run's thread id leads to is a checkpoint of that run's
\* topic, never one of a run for another topic.
C18_RunsAreIsolated ==
    /\ \A a, b \in 1..Len(runs) :
          runs[a].topic # runs[b].topic => runs[a].thread # runs[b].thread
    /\ \A a \in 1..Len(runs) :
          saver[runs[a].thread].st.topic = runs[a].topic

\* the analysts a step added to the analyst repository
NewlyStored == {uow'.analysts[id] : id \in DOMAIN uow'.analysts \ DOMAIN uow.analysts}

\* C21: a generate_analysts stage persists, associates and publishes a
\* generated batch only when the whole batch passed validate_analyst_personas:
\* a stage that failed leaves the repositories and the state's analysts as
\* they were, and a stage that changed either of them stored exactly the
\* analysts it put in the state, and these pass the validation.
C21_BatchPersistedOnlyIfValid ==
    [][StageStep("generate_analysts") =>
         /\ lastStage'.failed => (uow' = uow /\ st'.analysts = st.analysts)
         /\ (uow' # uow \/ st'.analysts # st.analysts) =>
               /\ validate_analyst_personas(st'.analysts)
               /\ NewlyStored = {st'.analysts[i] : i \in 1..Len(st'.analysts)}
               /\ get_by_project_id(uow'.analysts, uow'.project_analysts,
                                    st'.project_id)
                    = get_by_project_id(uow.analysts, uow.project_analysts,
                                        st.project_id) \o st'.analysts
               /\ uow'.research_projects[st'.project_id].analysts
                    = uow.research_projects[st.project_id].analysts
                        \o st'.analysts]_vars

\* a generate_analysts stage that built a batch (its ids are consumed),
\* found it invalid and stored none of it
C21_Witness ==
    /\ lastStage.stage = "generate_analysts"
    /\ lastStage.exc
    /\ uow.analysts = EmptyMap
    /\ st.analysts = <<>>
    /\ Cardinality(DOMAIN uow.research_projects) = 1
    /\ nextId > 3

\* C24: when the question or the answer generation call of the first round
\* of conduct_interview fails, the call still returns normally, with an
\* interview marked complete and at most max_turns expert responses.
C24_GenerationFailureUsesFallback ==
    (/\ ivOut.used
     /\ ivIn.max_turns >= 1
     /\ (ivIn.first.q = "raise" \/ ivIn.first.a = "raise")) =>
        /\ ~ivOut.exc
        /\ ivOut.val.completed_at
        /\ ExpertTurns(ivOut.val) <= ivIn.max_turns

\* C25: when the context search of the first round fails, the round still
\* records its expert answer and appends nothing to context_documents: the
\* returned interview holds fewer context documents than rounds.
C25_SearchFailureAddsNoContext ==
    (/\ ivOut.used
     /\ ~ivOut.exc
     /\ ivIn.max_turns >= 1
     /\ ivIn.first.search = "fail") =>
        /\ ExpertTurns(ivOut.val) >= 1
        /\ Len(ivOut.val.context_documents) < ExpertTurns(ivOut.val)

\* ------------------------------------------------------------------------
\* The domain services on their own: one call of a service operation on
\* every input of a bounded set
\* ------------------------------------------------------------------------
MaxPersonas == 2

HarnessPersonas ==
    [name : {"", "Ann", "ann"}, role : {" ", "Researcher"},
     affiliation : {"", "Research Lab"}, description : Descriptions]

PersonaLists == UNION {[1..k -> HarnessPersonas] : k \in 0..MaxPersonas}

\* AnalystService.validate_analyst_personas(analysts)
ValidatePersonasCall ==
    /\ svcIn.op = "none"
    /\ \E analysts \in PersonaLists :
          /\ svcIn' = [op |-> "validate_analyst_personas",
                       analysts |-> analysts]
          /\ svcOut' = [op |-> "validate_analyst_personas",
                          valid |-> validate_analyst_personas(analysts)]
    /\ UNCHANGED <<st, next, phase, api, ret, uow, nextId, trace, lastStage,
                   gate, resumes, ivIn, ivOut, saver, runs>>

\* the texts that are empty or consist of whitespace only
WhitespaceOnly == {"", " ", "   ", "          "}

\* C22: validate_analyst_personas returns false exactly when the list is
\* empty, or a persona has an empty or whitespace-only name, role,
\* affiliation or description, or a description has fewer than 10
\* characters, or two personas have the same name compared case-sensitively;
\* it returns true for every other list.
C22_ValidationCharacterised ==
    svcIn.op = "validate_analyst_personas" =>
        LET l == svcIn.analysts
            rejected ==
                \/ Len(l) = 0
                \/ \E i \in 1..Len(l) :
                      \/ l[i].name \in WhitespaceOnly
                      \/ l[i].role \in WhitespaceOnly
                      \/ l[i].affiliation \in WhitespaceOnly
                      \/ l[i].description \in WhitespaceOnly
                \/ \E i \in 1..Len(l) : StrLen(l[i].description) < 10
                \/ \E i, j \in 1..Len(l) : i # j /\ l[i].name = l[j].name
        IN svcOut.valid = ~rejected

\* a list accepted although its names differ only in case and one description
\* has exactly 10 characters
C22_Witness ==
    /\ svcIn.op = "validate_analyst_personas"
    /\ Len(svcIn.analysts) = 2
    /\ svcIn.analysts[1].name = "Ann"
    /\ svcIn.analysts[2].name = "ann"
    /\ svcIn.analysts[1].description = "ten chars!"
    /\ svcOut.valid

MaxLog == 3

HarnessMessages ==
    {[type |-> "human", content |-> c, name |-> "analyst"] :
        c \in {QuestionText, SignOffText}}
    \cup {[type |-> "ai", content |-> c, name |-> "expert"] :
            c \in {AnswerText, SignOffText}}

MessageLogs == UNION {[1..k -> HarnessMessages] : k \in 0..MaxLog}

\* InterviewService.should_continue_interview(messages, max_turns)
ShouldContinueCall ==
    /\ svcIn.op = "none"
    /\ \E messages \in MessageLogs, max_turns \in MaxTurnsInputs :
          /\ svcIn' = [op |-> "should_continue_interview",
                       messages |-> messages, max_turns |-> max_turns]
          /\ svcOut' = [op |-> "should_continue_interview",
                          continue |-> should_continue_interview(messages, max_turns)]
    /\ UNCHANGED <<st, next, phase, api, ret, uow, nextId, trace, lastStage,
                   gate, resumes, ivIn, ivOut, saver, runs>>

\* the positions of the analyst's messages in a log
AnalystPositions(messages) ==
    {i \in 1..Len(messages) : messages[i].name = "analyst"}

\* C23: for every message log, should_continue_interview returns false
\* exactly when the log holds at least max_turns expert messages or its most
\* recent analyst message contains the sign-off phrase, and true otherwise.
C23_StopsOnCapOrSignOff ==
    svcIn.op = "should_continue_interview" =>
        LET m == svcIn.messages
            experts == Cardinality({i \in 1..Len(m) : m[i].name = "expert"})
            signed_off ==
                \E i \in AnalystPositions(m) :
                   /\ \A j \in AnalystPositions(m) : j <= i
                   /\ m[i].content = SignOffText
        IN svcOut.continue = ~(experts >= svcIn.max_turns \/ signed_off)

MaxClock == 2

\* an interview that is not completed (clock 0) or was completed at a time
\* of the clock
HarnessInterview(clock) ==
    IF clock = 0
    THEN create_interview(1, [id |-> 10], "Design patterns", 1)
    ELSE complete_interview_at(
            create_interview(1, [id |-> 10], "Design patterns", 1), clock)

\* InterviewService.complete_interview(interview), called when
\* datetime.utcnow() is `now`, a time after everything that happened before
CompleteInterviewCall ==
    /\ svcIn.op = "none"
    /\ \E clock \in 0..MaxClock :
          \E now \in (clock + 1)..(MaxClock + 1) :
             /\ svcIn' = [op |-> "complete_interview",
                          completed_at |-> clock, now |-> now]
             /\ svcOut' = [op |-> "complete_interview",
                           interview |-> complete_interview_at(
                                            HarnessInterview(clock), now)]
    /\ UNCHANGED <<st, next, phase, api, ret, uow, nextId, trace, lastStage,
                   gate, resumes, ivIn, ivOut, saver, runs>>

\* C26: complete_interview on an interview whose completed_at is already set
\* (the harness clock is positive) never changes completed_at.
C26_CompletedAtSetOnce ==
    (svcIn.op = "complete_interview" /\ svcIn.completed_at > 0) =>
        svcOut.interview.completed_at = svcIn.completed_at

\* the status values the code assigns to a project, in the order of the
\* project's life
ProjectStatuses == <<"created", "completed">>

\* the position of a status in that order
StatusRank(status) ==
    CHOOSE i \in 1..Len(ProjectStatuses) : ProjectStatuses[i] = status

\* a project record in each status
HarnessProject(status) ==
    [NewProject(1, "Design patterns") EXCEPT
        !.status = status, !.completed_at = (status = "completed")]

\* ResearchService.update_project_status(project, status)
UpdateStatusCall ==
    /\ svcIn.op = "none"
    /\ \E i, j \in 1..Len(ProjectStatuses) :
          /\ svcIn' = [op |-> "update_project_status",
                       project |-> HarnessProject(ProjectStatuses[i]),
                       status |-> ProjectStatuses[j]]
          /\ svcOut' = [op |-> "update_project_status",
                          project |-> update_project_status(
                                   HarnessProject(ProjectStatuses[i]),
                                   ProjectStatuses[j])]
    /\ UNCHANGED <<st, next, phase, api, ret, uow, nextId, trace, lastStage,
                   gate, resumes, ivIn, ivOut, saver, runs>>

\* C27: update_project_status never moves a project's status backwards in
\* the order created < in_progress < completed.
C27_StatusNeverRegresses ==
    svcIn.op = "update_project_status" =>
        StatusRank(svcOut.project.status) >= StatusRank(svcIn.project.status)

MaxChildren == 2

\* projects whose child lists hold up to MaxChildren analysts, interviews
\* (by any of the analysts, completed or not) and sections (of any of the
\* interviews)
HarnessAnalystLists == {[i \in 1..k |-> [id |-> i]] : k \in 0..MaxChildren}

HarnessInterviewLists ==
    UNION {{[i \in 1..k |-> [id |-> 100 + i, analyst_id |-> f[i].analyst_id,
                              completed_at |-> f[i].completed_at]] :
              f \in [1..k -> [analyst_id : 1..MaxChildren,
                              completed_at : BOOLEAN]]} :
           k \in 0..MaxChildren}

HarnessSectionLists ==
    UNION {{[i \in 1..k |-> [id |-> 200 + i, interview_id |-> 100 + f[i]]] :
              f \in [1..k -> 1..MaxChildren]} :
           k \in 0..MaxChildren}

\* ResearchService.is_project_complete(project)
IsProjectCompleteCall ==
    /\ svcIn.op = "none"
    /\ \E analysts \in HarnessAnalystLists,
          interviews \in HarnessInterviewLists,
          sections \in HarnessSectionLists,
          i \in 1..Len(ProjectStatuses) :
          \E project \in {[HarnessProject(ProjectStatuses[i]) EXCEPT
                              !.analysts = analysts,
                              !.interviews = interviews,
                              !.sections = sections]} :
             /\ svcIn' = [op |-> "is_project_complete", project |-> project]
             /\ svcOut' = [op |-> "is_project_complete",
                          complete |-> is_project_complete(project)]
    /\ UNCHANGED <<st, next, phase, api, ret, uow, nextId, trace, lastStage,
                   gate, resumes, ivIn, ivOut, saver, runs>>

\* C28: is_project_complete(project) is true if and only if the analyst list
\* is non-empty, every analyst has exactly one completed interview, every
\* interview has exactly one section, and the status is completed.
C28_CompleteIffEveryAnalystDone ==
    svcIn.op = "is_project_complete" =>
        LET p == svcIn.project
            CompletedBy(a) ==
                {i \in 1..Len(p.interviews) :
                    /\ p.interviews[i].analyst_id = a.id
                    /\ p.interviews[i].completed_at}
            SectionsOf(iv) ==
                {k \in 1..Len(p.sections) : p.sections[k].interview_id = iv.id}
        IN svcOut.complete =
              (/\ Len(p.analysts) > 0
               /\ \A n \in 1..Len(p.analysts) :
                     Cardinality(CompletedBy(p.analysts[n])) = 1
               /\ \A i \in 1..Len(p.interviews) :
                     Cardinality(SectionsOf(p.interviews[i])) = 1
               /\ p.status = "completed")

\* ------------------------------------------------------------------------
\* SectionService.extract_sources_from_content. A content is a sequence of
\* tokens: a marker "[n]" (a bracketed integer), a "[" that opens no marker,
\* a newline, a space, and words (runs of other characters). A text is the
\* sequence of its tokens.
\* ------------------------------------------------------------------------
MaxContent == 4

Marker == "[n]"
ContentTokens == {Marker, "[", "\n", " ", "Foo", "Bar"}

\* \s matches the space and the newline
WhitespaceTokens == {" ", "\n"}
\* [^\n\[] matches everything but a newline and an opening bracket
GroupTokens == ContentTokens \ {"\n", "[", Marker}

\* the first position at or after i whose token is outside the set
RunEnd(content, i, set) ==
    CHOOSE j \in i..(Len(content) + 1) :
       /\ j = Len(content) + 1 \/ content[j] \notin set
       /\ \A k \in i..(j - 1) : content[k] \in set

\* where the group ([^\n\[]+) of a match of the pattern at marker i starts:
\* \s* takes as much whitespace as it can and gives it back token by token
\* until the group can take at least one token; 0 when there is no match
GroupStart(content, i) ==
    LET starts == {j \in (i + 1)..RunEnd(content, i + 1, WhitespaceTokens) :
                      j <= Len(content) /\ content[j] \in GroupTokens}
    IN IF starts = {} THEN 0
       ELSE CHOOSE j \in starts : \A k \in starts : k <= j

RECURSIVE StripTokens(_)
\* str.strip() of a text
StripTokens(text) ==
    IF text = <<>> THEN text
    ELSE IF Head(text) \in WhitespaceTokens THEN StripTokens(Tail(text))
    ELSE IF text[Len(text)] \in WhitespaceTokens
    THEN StripTokens(SubSeq(text, 1, Len(text) - 1))
    ELSE text

RECURSIVE FindAll(_, _)
\* re.findall(source_pattern, content) from position i on, each match
\* stripped: the matches from left to right, none overlapping
FindAll(content, i) ==
    IF i > Len(content) THEN <<>>
    ELSE IF content[i] = Marker /\ GroupStart(content, i) # 0
    THEN LET start == GroupStart(content, i)
             end == RunEnd(content, start, GroupTokens)
         IN <<StripTokens(SubSeq(content, start, end - 1))>>
               \o FindAll(content, end)
    ELSE FindAll(content, i + 1)

extract_sources_from_content(content) == FindAll(content, 1)

ExampleContent == <<Marker, " ", "Foo", "\n", Marker, " ", "Bar">>

HarnessContents ==
    UNION {[1..k -> ContentTokens] : k \in 0..MaxContent} \cup {ExampleContent}

ExtractSourcesCall ==
    /\ svcIn.op = "none"
    /\ \E content \in HarnessContents :
          /\ svcIn' = [op |-> "extract_sources_from_content",
                       content |-> content]
          /\ svcOut' = [op |-> "extract_sources_from_content",
                          sources |-> extract_sources_from_content(content)]
    /\ UNCHANGED <<st, next, phase, api, ret, uow, nextId, trace, lastStage,
                   gate, resumes, ivIn, ivOut, saver, runs>>

\* the text that follows the marker at position i up to the next "[" or
\* newline, without the whitespace around it
TextAfterMarker(content, i) ==
    StripTokens(SubSeq(content, i + 1,
                       RunEnd(content, i + 1, GroupTokens) - 1))

\* the markers' texts in order of appearance
TextsAfterMarkers(content) ==
    LET at == SelectSeq([i \in 1..Len(content) |-> i],
                        LAMBDA i : content[i] = Marker)
    IN [k \in 1..Len(at) |-> TextAfterMarker(content, at[k])]

\* C30: extract_sources_from_content returns, in order of appearance, the
\* text that follows each marker [n] up to the next "[" or newline (empty
\* texts are left out of the comparison), and for
\* "[1] Foo\n[2] Bar" it returns ["Foo", "Bar"].
C30_SourcesAreTextsAfterMarkers ==
    svcIn.op = "extract_sources_from_content" =>
        /\ SelectSeq(svcOut.sources, LAMBDA text : text # <<>>)
              = SelectSeq(TextsAfterMarkers(svcIn.content),
                          LAMBDA text : text # <<>>)
        /\ svcIn.content = ExampleContent =>
              svcOut.sources = <<<<"Foo">>, <<"Bar">>>>

\* ------------------------------------------------------------------------
\* The specification of the domain service calls
\* ------------------------------------------------------------------------
ServiceNext ==
    \/ ValidatePersonasCall
    \/ ShouldContinueCall
    \/ CompleteInterviewCall
    \/ UpdateStatusCall
    \/ IsProjectCompleteCall
    \/ ExtractSourcesCall

ServiceSpec == Init /\ [][ServiceNext]_vars

\* C31: whenever write_section creates a section at cursor i, the section's
\* analyst_id is analysts[i].id and its interview_id is the id of an
\* interview of the state whose analyst_id is analysts[i].id, also after
\* stages of earlier analysts failed.
C31_SectionMatchesCursorAnalyst ==
    [][(/\ StageStep("write_section")
        /\ Len(st'.sections) = Len(st.sections) + 1) =>
          LET section == st'.sections[Len(st'.sections)]
              analyst == st.analysts[st.current_analyst_index + 1]
          IN /\ st.current_analyst_index < Len(st.analysts)
             /\ section.analyst_id = analyst.id
             /\ \E k \in 1..Len(st.interviews) :
                   /\ st.interviews[k].id = section.interview_id
                   /\ st.interviews[k].analyst_id = analyst.id]_vars

\* the section of the second analyst was written after the section stage of
\* the first analyst had failed
C31_Witness ==
    /\ lastStage.stage = "write_section"
    /\ ~lastStage.failed
    /\ st.current_analyst_index = 1
    /\ Len(st.sections) = 1
    /\ st.sections[1].analyst_id = st.analysts[2].id
    /\ \E p \in StageIndexes(trace, "write_section") :
          trace[p].idx = 0 /\ trace[p].exc

\* what conduct_interview_node requires of the state it starts in
InterviewPrecondition(state) ==
    /\ state.project_id # NoId
    /\ Truthy(state.topic)
    /\ Len(state.analysts) > 0
    /\ 0 <= state.current_analyst_index
    /\ state.current_analyst_index < Len(state.analysts)

\* C32: a conduct_interview stage started in a state without project_id or
\* topic, with an empty analyst list or with the cursor outside the list
\* returns the error state, creates no Interview record (no id is consumed,
\* the repositories are untouched) and leaves the interview list unchanged.
C32_InterviewOnlyWithAnalystAtCursor ==
    [][(StageStep("conduct_interview") /\ ~InterviewPrecondition(st)) =>
          /\ lastStage'.failed
          /\ Truthy(st'.error)
          /\ uow' = uow
          /\ nextId' = nextId
          /\ st'.interviews = st.interviews]_vars

\* a conduct_interview stage of a run that has a project but no analysts (the
\* generator failed) ended in the error state without an Interview record
C32_Witness ==
    /\ lastStage.stage = "conduct_interview"
    /\ lastStage.failed
    /\ st.project_id # NoId
    /\ Len(st.analysts) = 0
    /\ st.error = "No analysts available for interview"
    /\ uow.interviews = EmptyMap

\* C33: in every reachable state 0 <= current_analyst_index <= len(analysts),
\* and an advance_analyst stage that would move the cursor past the end of
\* the analyst list puts the run in the error state instead.
C33_CursorWithinAnalystList ==
    /\ 0 <= st.current_analyst_index
    /\ st.current_analyst_index <= Len(st.analysts)
    /\ (/\ lastStage.stage = "advance_analyst"
        /\ trace[Len(trace)].idx >= Len(st.analysts)) => lastStage.failed

\* ------------------------------------------------------------------------
\* The workflow operations called directly, outside the graph: a project is
\* created and ResearchWorkflow.generate_analysts is called for it up to
\* MaxGenerations times, with every behaviour of the persona generator
\* ------------------------------------------------------------------------
MaxGenerations == 2

\* ResearchWorkflow.create_research_project(topic, max_analysts)
CreateProjectCall ==
    /\ svcIn.op = "none"
    /\ phase = "idle"
    /\ \E topic \in Topics, max_analysts \in MaxAnalystsInputs :
          \E r \in {create_research_project(uow, nextId, topic,
                                            max_analysts)} :
             /\ svcIn' = [op |-> "create_research_project", topic |-> topic,
                          max_analysts |-> max_analysts]
             /\ svcOut' = [op |-> "create_research_project", exc |-> r.exc,
                           project_id |-> r.val.id, generations |-> 0,
                           successes |-> 0]
             /\ uow' = r.uow
             /\ nextId' = r.nextId
    /\ UNCHANGED <<st, next, phase, api, ret, trace, lastStage, gate, resumes,
                   ivIn, ivOut, saver, runs>>

\* ResearchWorkflow.generate_analysts(project_id, topic, max_analysts,
\* human_feedback) for the project created before
GenerateAnalystsCall ==
    /\ svcOut.op \in {"create_research_project", "generate_analysts"}
    /\ svcOut.project_id # NoId
    /\ svcOut.generations < MaxGenerations
    /\ \E human_feedback \in {None} \cup Feedbacks,
          outcome \in GeneratorOutcomes :
          \E r \in {generate_analysts(
                       uow, nextId, svcOut.project_id,
                       uow.research_projects[svcOut.project_id].topic,
                       MaxBatch, human_feedback, outcome)} :
             /\ svcIn' = [op |-> "generate_analysts",
                          project_id |-> svcOut.project_id,
                          human_feedback |-> human_feedback]
             /\ svcOut' = [op |-> "generate_analysts", exc |-> r.exc,
                           project_id |-> svcOut.project_id,
                           generations |-> svcOut.generations + 1,
                           successes |-> svcOut.successes
                                            + (IF r.exc THEN 0 ELSE 1),
                           analysts |-> r.val]
             /\ uow' = r.uow
             /\ nextId' = r.nextId
    /\ UNCHANGED <<st, next, phase, api, ret, trace, lastStage, gate, resumes,
                   ivIn, ivOut, saver, runs>>

WorkflowNext == CreateProjectCall \/ GenerateAnalystsCall

WorkflowSpec == Init /\ [][WorkflowNext]_vars

\* C34: after generate_analysts succeeded a second time for the project, the
\* stored project's analyst list and the project-scoped analyst lookup hold
\* exactly the latest batch, not the earlier batch followed by the new one.
C34_RegenerationReplacesAnalysts ==
    (/\ svcOut.op = "generate_analysts"
     /\ ~svcOut.exc
     /\ svcOut.successes >= 2) =>
        /\ uow.research_projects[svcOut.project_id].analysts
             = svcOut.analysts
        /\ get_by_project_id(uow.analysts, uow.project_analysts,
                             svcOut.project_id) = svcOut.analysts

\* the state keys the human-feedback gate may write
GateKeys == {"current_step", "human_feedback"}

\* C35: executing the human-feedback gate changes no state key other than
\* current_step and human_feedback (topic, project_id, analysts, cursor,
\* interviews, sections, output_data, error, success and workflow_complete
\* keep their values) and touches no repository.
C35_GateIsPassThrough ==
    [][StageStep("human_feedback") =>
          /\ DOMAIN st' = DOMAIN st
          /\ \A k \in DOMAIN st \ GateKeys : st'[k] = st[k]
          /\ uow' = uow
          /\ nextId' = nextId]_vars

\* the gate ran on a run with generated analysts and non-blank feedback and
\* recorded that it processed the feedback
C35_Witness ==
    /\ lastStage.stage = "human_feedback"
    /\ Len(st.analysts) > 0
    /\ uow.analysts # EmptyMap
    /\ st.current_step = "feedback_processed"

\* ------------------------------------------------------------------------
\* memory_research_repositories.py: the analyst, interview and section
\* repositories under any sequence of up to MaxRepoOps create,
\* associate_with_project and delete calls
\* ------------------------------------------------------------------------
MaxRepoOps == 4

\* the repositories with a project-association index, and that index
RepoKinds == {"analysts", "interviews", "research_sections"}
ProjectIndexOf(kind) ==
    CASE kind = "analysts" -> "project_analysts"
      [] kind = "interviews" -> "project_interviews"
      [] OTHER -> "project_sections"

RepoProjects == {1, 2}
RepoChildren == {[id |-> c, analyst_id |-> 10] : c \in {21, 22}}

RECURSIVE RemoveFirst(_, _)
\* list.remove(value): drops the first occurrence
RemoveFirst(list, value) ==
    IF list = <<>> THEN list
    ELSE IF Head(list) = value THEN Tail(list)
    ELSE <<Head(list)>> \o RemoveFirst(Tail(list), value)

\* `if value in ids: ids.remove(value)` for every list of an index
RemoveFromIndex(index, value) ==
    [k \in DOMAIN index |-> RemoveFirst(index[k], value)]

\* Memory*Repository.create: stores the child; the interview repository also
\* appends the id to the analyst's list
RepoCreate(u, kind, child) ==
    IF kind = "interviews"
    THEN [u EXCEPT !.interviews = Put(@, child.id, child),
                   !.analyst_interviews =
                       IndexAppend(@, child.analyst_id, child.id)]
    ELSE [u EXCEPT ![kind] = Put(@, child.id, child)]

\* associate_with_project that appends the id even when the list holds it
associate_with_project_repeating(u, kind, project_id, child_id) ==
    [u EXCEPT ![ProjectIndexOf(kind)] = IndexAppend(@, project_id, child_id)]

\* Memory*Repository.associate_with_project
RepoAssociate(u, kind, project_id, child_id) ==
    [u EXCEPT ![ProjectIndexOf(kind)] =
                 associate_with_project(@, project_id, child_id)]

\* Memory*Repository.delete: a stored child is dropped from the store and
\* from every association list; an unknown id changes nothing
RepoDelete(u, kind, child_id) ==
    IF child_id \notin DOMAIN u[kind] THEN u
    ELSE LET u1 == [u EXCEPT
                      ![kind] = [k \in DOMAIN @ \ {child_id} |-> @[k]],
                      ![ProjectIndexOf(kind)] = RemoveFromIndex(@, child_id)]
         IN IF kind = "interviews"
            THEN [u1 EXCEPT !.analyst_interviews =
                               RemoveFromIndex(@, child_id)]
            ELSE u1

\* the calls made so far on the repository: svcIn.log, empty before the
\* first call
RepoLog == IF svcIn.op = "repository" THEN svcIn.log ELSE <<>>

\* one further call on the repository chosen by the first call
RepoCall(kind, call, project_id, child, after, deleted) ==
    /\ phase = "idle"
    /\ svcIn.op \in {"none", "repository"}
    /\ svcIn.op = "repository" => svcIn.kind = kind
    /\ Len(RepoLog) < MaxRepoOps
    /\ uow' = after
    /\ svcIn' = [op |-> "repository", kind |-> kind,
                 log |-> Append(RepoLog, [call |-> call,
                                          project_id |-> project_id,
                                          child_id |-> child.id,
                                          deleted |-> deleted])]
    /\ svcOut' = [op |-> "repository", deleted |-> deleted]
    /\ UNCHANGED <<st, next, phase, api, ret, nextId, trace, lastStage, gate,
                   resumes, ivIn, ivOut, saver, runs>>

RepoCreateCall ==
    \E kind \in RepoKinds, child \in RepoChildren :
       RepoCall(kind, "create", NoId, child, RepoCreate(uow, kind, child),
                FALSE)

RepoAssociateCall ==
    \E kind \in RepoKinds, project_id \in RepoProjects,
       child \in RepoChildren :
       RepoCall(kind, "associate_with_project", project_id, child,
                RepoAssociate(uow, kind, project_id, child.id), FALSE)

RepoDeleteCall ==
    \E kind \in RepoKinds, child \in RepoChildren :
       RepoCall(kind, "delete", NoId, child, RepoDelete(uow, kind, child.id),
                child.id \in DOMAIN uow[kind])

RepoNext == RepoCreateCall \/ RepoAssociateCall \/ RepoDeleteCall

RepoSpec == Init /\ [][RepoNext]_vars

\* position of the last delete call that removed the child, 0 if none
LastDelete(log, child_id) ==
    LET hits == {i \in 1..Len(log) :
                    /\ log[i].call = "delete"
                    /\ log[i].child_id = child_id
                    /\ log[i].deleted}
    IN IF hits = {} THEN 0 ELSE CHOOSE i \in hits : \A j \in hits : j <= i

\* the child is stored: it was created after it was last removed
StillExists(log, child_id) ==
    \E i \in 1..Len(log) :
       /\ log[i].call = "create"
       /\ log[i].child_id = child_id
       /\ i > LastDelete(log, child_id)

\* position of the first association of the child with the project since
\* the child was last removed, 0 if none
FirstAssociation(log, project_id, child_id) ==
    LET hits == {i \in 1..Len(log) :
                    /\ log[i].call = "associate_with_project"
                    /\ log[i].project_id = project_id
                    /\ log[i].child_id = child_id
                    /\ i > LastDelete(log, child_id)}
    IN IF hits = {} THEN 0 ELSE CHOOSE i \in hits : \A j \in hits : i <= j

\* C36: after any sequence of create, associate_with_project and delete
\* calls on a repository, every project's association list holds each child
\* id at most once, and get_by_project_id returns exactly the stored children
\* that are associated with the project, in the order of their first
\* association.
C36_AssociationsUniqueAndOrdered ==
    svcIn.op = "repository" =>
        \A project_id \in RepoProjects :
           LET index == uow[ProjectIndexOf(svcIn.kind)]
               ids == IF project_id \in DOMAIN index
                      THEN index[project_id] ELSE <<>>
               got == get_by_project_id(uow[svcIn.kind], index, project_id)
               expected ==
                  {c \in {21, 22} :
                      /\ StillExists(svcIn.log, c)
                      /\ FirstAssociation(svcIn.log, project_id, c) > 0}
           IN /\ \A i, j \in 1..Len(ids) : i # j => ids[i] # ids[j]
              /\ {got[i].id : i \in 1..Len(got)} = expected
              /\ Len(got) = Cardinality(expected)
              /\ \A i, j \in 1..Len(got) :
                    i < j =>
                       FirstAssociation(svcIn.log, project_id, got[i].id)
                         < FirstAssociation(svcIn.log, project_id, got[j].id)

\* a stored child was associated with project 1 twice by identical calls:
\* the association list and the lookup hold it once
C36_Witness ==
    /\ svcIn.op = "repository"
    /\ Len(svcIn.log) = MaxRepoOps
    /\ \E i, j \in 1..Len(svcIn.log) :
          /\ i < j
          /\ svcIn.log[i].call = "associate_with_project"
          /\ svcIn.log[i] = svcIn.log[j]
    /\ 1 \in DOMAIN uow[ProjectIndexOf(svcIn.kind)]
    /\ Len(uow[ProjectIndexOf(svcIn.kind)][1]) = 1
    /\ Len(get_by_project_id(uow[svcIn.kind],
                             uow[ProjectIndexOf(svcIn.kind)], 1)) = 1

\* C37: in every reachable workflow state the sections are no more than the
\* interviews and the interviews no more than the analysts, whichever stages
\* fail.
C37_SectionsInterviewsAnalystsOrdered ==
    /\ Len(st.sections) <= Len(st.interviews)
    /\ Len(st.interviews) <= Len(st.analysts)

\* a run where a stage failed and the lists are nevertheless filled: two
\* analysts, two interviews, and fewer sections than interviews
C37_Witness ==
    /\ Len(st.analysts) = 2
    /\ Len(st.interviews) = 2
    /\ Len(st.sections) < 2
    /\ \E i \in 1..Len(trace) : trace[i].exc

\* C38: when a run reaches the success terminal state, the stored project is
\* complete for out-of-band polling: is_project_complete(project) is true and
\* get_project_progress(project) reports completed_interviews =
\* sections_written = total_analysts. Stated for the runs in which no stage
\* failed, where the claim is at its weakest.
C38_SuccessImpliesStoredProjectComplete ==
    (/\ phase = "done" /\ ReportAssembled /\ st.error = None
     /\ \A i \in 1..Len(trace) : ~trace[i].exc
     /\ st.project_id \in DOMAIN uow.research_projects) =>
        LET project == uow.research_projects[st.project_id]
            progress == get_project_progress(project)
        IN /\ is_project_complete(project)
           /\ progress.completed_interviews = progress.total_analysts
           /\ progress.sections_written = progress.total_analysts

\* ------------------------------------------------------------------------
\* orchestration/langgraph/orchestrator.py and nodes.py: the generic
\* conversation graph. svcIn holds the arguments of execute_workflow, svcOut
\* the graph state, the node to run next and the number of node executions.
\* ------------------------------------------------------------------------
\* supersteps after which graph.ainvoke raises its recursion error
RecursionLimit == 3

WorkflowNames == {"simple_chat", "chat_with_tools", "Tool_lookup", "summarise"}
UserMessages == {"", "hello"}

\* `"tool" in workflow_name.lower()`
ContainsTool(workflow_name) == workflow_name \in {"chat_with_tools", "Tool_lookup"}

\* results of the injected llm_service.generate_response: ExecutionResult
\* with error_message defaulting to None
LlmResults ==
    {[success |-> TRUE, error_message |-> None],
     [success |-> FALSE, error_message |-> None],
     [success |-> FALSE, error_message |-> ""],
     [success |-> FALSE, error_message |-> "rate limited"]}

\* str(e) of an exception raised inside a node; None when nothing is raised
NodeExceptions == {None, "", "connection reset"}

error_result(error_message) ==
    [success |-> FALSE, data |-> <<>>, error_message |-> error_message]

success_result(data) ==
    [success |-> TRUE, data |-> data, error_message |-> None]

\* ConversationWorkflow._execute_simple_chat / _execute_chat_with_tools
ExecuteChat(message, llm) ==
    IF ~Truthy(message) THEN error_result("Message is required")
    ELSE IF ~llm.success THEN error_result(llm.error_message)
    ELSE success_result(<<"response">>)

\* ConversationWorkflow.execute_workflow
ConversationWorkflowExecute(workflow_name, message, valid, llm) ==
    IF ~valid THEN error_result("Invalid execution context")
    ELSE IF workflow_name \in {"simple_chat", "chat_with_tools"}
    THEN ExecuteChat(message, llm)
    ELSE error_result("Unknown workflow: ...")

\* ConversationNode.__call__: the state update the node returns
ConversationNode(state, valid, llm, raised) ==
    IF raised # None
    THEN [output_data |-> <<>>, success |-> FALSE, error |-> raised,
          current_step |-> "conversation_failed"]
    ELSE LET result == ConversationWorkflowExecute(
                          state.workflow_name, state.input_data, valid, llm)
         IN [output_data |-> result.data,
             success |-> result.success,
             error |-> result.error_message,
             current_step |-> "conversation_completed",
             execution_metadata |-> <<"execution_time">>]

\* ToolNode.__call__
ToolNode(state, valid, llm, raised) ==
    IF raised # None
    THEN [output_data |-> <<>>, success |-> FALSE, error |-> raised,
          current_step |-> "tool_failed"]
    ELSE LET result == ConversationWorkflowExecute(
                          "chat_with_tools", state.input_data, valid, llm)
         IN [output_data |-> result.data,
             success |-> result.success,
             error |-> result.error_message,
             current_step |-> "tool_completed"]

should_continue(state) ==
    IF Truthy(state.error) THEN "error"
    ELSE IF state.success THEN "complete"
    ELSE "continue"

route_workflow(state) ==
    IF ContainsTool(state.workflow_name) THEN "tool_node"
    ELSE "conversation_node"

\* the conditional edges of _build_graph out of a node
EdgeAfterNode(node, state) ==
    IF should_continue(state) = "continue" THEN node ELSE "END"

\* LangGraphOrchestrator.execute_workflow up to graph.ainvoke: the initial
\* state is routed from START
ExecuteWorkflowCall ==
    /\ phase = "idle"
    /\ svcIn.op = "none"
    /\ \E workflow_name \in WorkflowNames, message \in UserMessages :
          LET initial == [workflow_name |-> workflow_name,
                          input_data |-> message,
                          output_data |-> <<>>,
                          current_step |-> "start",
                          execution_metadata |-> <<>>,
                          error |-> None,
                          success |-> FALSE]
          IN /\ svcIn' = [op |-> "execute_workflow",
                          workflow_name |-> workflow_name,
                          input_data |-> message]
             /\ svcOut' = [op |-> "execute_workflow",
                           state |-> initial,
                           node |-> route_workflow(initial),
                           executions |-> 0,
                           result |-> error_result(None)]
    /\ UNCHANGED <<st, next, phase, api, ret, uow, nextId, trace, lastStage,
                   gate, resumes, ivIn, ivOut, saver, runs>>

\* one superstep: the scheduled node runs, its update is merged into the
\* state and should_continue picks the next node
GraphNodeStep ==
    /\ svcOut.op = "execute_workflow"
    /\ svcOut.node \in {"conversation_node", "tool_node"}
    /\ svcOut.executions < RecursionLimit
    /\ \E valid \in BOOLEAN, llm \in LlmResults, raised \in NodeExceptions :
          \E after \in {ApplyDelta(svcOut.state,
                           IF svcOut.node = "tool_node"
                           THEN ToolNode(svcOut.state, valid, llm, raised)
                           ELSE ConversationNode(svcOut.state, valid, llm,
                                                 raised))} :
             svcOut' = [svcOut EXCEPT
                          !.state = after,
                          !.node = EdgeAfterNode(svcOut.node, after),
                          !.executions = @ + 1]
    /\ UNCHANGED <<st, next, phase, api, ret, uow, nextId, trace, lastStage,
                   gate, resumes, ivIn, ivOut, svcIn, saver, runs>>

\* graph.ainvoke raises once the recursion limit is used up with a node
\* still scheduled; execute_workflow turns the exception into an error result
GraphRecursionError ==
    /\ svcOut.op = "execute_workflow"
    /\ svcOut.node \in {"conversation_node", "tool_node"}
    /\ svcOut.executions = RecursionLimit
    /\ svcOut' = [svcOut EXCEPT
                    !.node = "raised",
                    !.result = error_result("Recursion limit reached")]
    /\ UNCHANGED <<st, next, phase, api, ret, uow, nextId, trace, lastStage,
                   gate, resumes, ivIn, ivOut, svcIn, saver, runs>>

\* execute_workflow translates the final state into an ExecutionResult
GraphReturns ==
    /\ svcOut.op = "execute_workflow"
    /\ svcOut.node = "END"
    /\ svcOut' = [svcOut EXCEPT
                    !.node = "returned",
                    !.result = IF svcOut.state.success
                               THEN success_result(svcOut.state.output_data)
                               ELSE error_result(svcOut.state.error)]
    /\ UNCHANGED <<st, next, phase, api, ret, uow, nextId, trace, lastStage,
                   gate, resumes, ivIn, ivOut, svcIn, saver, runs>>

ConversationNext ==
    \/ ExecuteWorkflowCall
    \/ GraphNodeStep
    \/ GraphRecursionError
    \/ GraphReturns

ConversationSpec == Init /\ [][ConversationNext]_vars

\* C39: in the generic conversation graph the scheduled node executes at
\* most once per execute_workflow call: after it returns, should_continue
\* routes to END whether the domain workflow succeeded or failed, for every
\* error message the node can record, an empty or missing one included.
C39_NodeExecutesAtMostOnce ==
    svcOut.op = "execute_workflow" => svcOut.executions <= 1

\* ------------------------------------------------------------------------
\* domain/models/entities.py (Task) and domain/services/task_service.py:
\* one task under any sequence of up to MaxTaskOps service calls. svcOut
\* holds the stored task, svcIn the calls made with the status before and
\* after each.
\* ------------------------------------------------------------------------
MaxTaskOps == 3

TaskStatuses == {"pending", "running", "completed", "failed", "cancelled"}

\* TaskService.create_task: Task(status=TaskStatus.PENDING)
NewTask ==
    [status |-> "pending", output_data |-> <<>>, error_message |-> None,
     started_at |-> FALSE, completed_at |-> FALSE]

\* Task.start
start(task) ==
    IF task.status # "pending" THEN [exc |-> TRUE, task |-> task]
    ELSE [exc |-> FALSE,
          task |-> [task EXCEPT !.status = "running", !.started_at = TRUE]]

\* Task.complete
complete(task, output_data) ==
    IF task.status # "running" THEN [exc |-> TRUE, task |-> task]
    ELSE [exc |-> FALSE,
          task |-> [task EXCEPT !.status = "completed",
                                !.output_data = output_data,
                                !.completed_at = TRUE]]

\* Task.fail
fail(task, error_message) ==
    [exc |-> FALSE,
     task |-> [task EXCEPT !.status = "failed",
                           !.error_message = error_message,
                           !.completed_at = TRUE]]

\* Task.is_finished
is_finished(task) == task.status \in {"completed", "failed", "cancelled"}

\* TaskService.start_task
start_task(task) == start(task)

\* TaskService.complete_task
complete_task(task, output_data, success, error_message) ==
    IF success THEN complete(task, output_data)
    ELSE fail(task, IF Truthy(error_message) THEN error_message
                    ELSE "Task failed")

\* TaskService.cancel_task
cancel_task(task, reason) ==
    IF is_finished(task) THEN [exc |-> TRUE, task |-> task]
    ELSE [exc |-> FALSE,
          task |-> [task EXCEPT !.status = "cancelled",
                                !.error_message = reason,
                                !.completed_at = TRUE]]

\* TaskService.validate_task_transition
validate_task_transition(current_status, new_status) ==
    LET allowed_transitions ==
           [s \in TaskStatuses |->
               CASE s = "pending" -> {"running", "cancelled"}
                 [] s = "running" -> {"completed", "failed", "cancelled"}
                 [] OTHER -> {}]
    IN new_status \in allowed_transitions[current_status]

TaskLog == IF svcIn.op = "task" THEN svcIn.log ELSE <<>>

\* one service call on the task; a call that raises leaves the stored task
\* as it was
TaskCall(call, r) ==
    /\ svcOut.op = "task"
    /\ Len(TaskLog) < MaxTaskOps
    /\ svcOut' = [op |-> "task", task |-> r.task, exc |-> r.exc]
    /\ svcIn' = [op |-> "task",
                 log |-> Append(TaskLog, [call |-> call,
                                          before |-> svcOut.task.status,
                                          after |-> r.task.status,
                                          exc |-> r.exc])]
    /\ UNCHANGED <<st, next, phase, api, ret, uow, nextId, trace, lastStage,
                   gate, resumes, ivIn, ivOut, saver, runs>>

CreateTaskCall ==
    /\ phase = "idle"
    /\ svcIn.op = "none"
    /\ svcIn' = [op |-> "task", log |-> <<>>]
    /\ svcOut' = [op |-> "task", task |-> NewTask, exc |-> FALSE]
    /\ UNCHANGED <<st, next, phase, api, ret, uow, nextId, trace, lastStage,
                   gate, resumes, ivIn, ivOut, saver, runs>>

StartTaskCall == TaskCall("start_task", start_task(svcOut.task))

CompleteTaskCall ==
    \E success \in BOOLEAN, error_message \in {None, "disk full"} :
       TaskCall(IF success THEN "complete_task" ELSE "complete_task_failure",
                complete_task(svcOut.task, <<"answer">>, success,
                              error_message))

CancelTaskCall == TaskCall("cancel_task", cancel_task(svcOut.task, "Cancelled by user"))

TaskNext ==
    \/ CreateTaskCall
    \/ StartTaskCall
    \/ CompleteTaskCall
    \/ CancelTaskCall

TaskSpec == Init /\ [][TaskNext]_vars

\* C40: every status change made to a task by start, complete, fail or
\* cancel_task is a transition validate_task_transition permits, so a task
\* in completed, failed or cancelled never changes status again.
C40_StatusChangesArePermitted ==
    svcIn.op = "task" =>
        \A i \in 1..Len(svcIn.log) :
           svcIn.log[i].before # svcIn.log[i].after =>
              validate_task_transition(svcIn.log[i].before, svcIn.log[i].after)

====
